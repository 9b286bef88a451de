----------------------------- MODULE RtDB1_proofs -----------------------------
(***************************************************************************)
(* Theorems about version 1 of the database, for every number of           *)
(* processes, every configuration file, any number of crashes and puts, as *)
(* long as no process starts or stops while another one does.              *)
(***************************************************************************)
EXTENDS Segments_proofs

(***************************************************************************)
(* What the configuration file says.                                       *)
(***************************************************************************)
Conf == ReadConfiguration(file)
OwnRecs == IF Self < Len(Conf) THEN Conf[Self + 1].local ELSE <<>>
Areas == 1 .. Len(Conf) + 1
RecsAt(k) == IF k = Len(Conf) + 1 THEN OwnRecs ELSE Conf[k].shared

LEMMA ConfFacts ==
  ASSUME Typed
  PROVE  /\ Conf \in Seq(AgentConf) /\ Len(Conf) \in Nat /\ Len(Conf) <= MaxAgents
         /\ \A k \in 1 .. Len(Conf) : Conf[k].shared \in Seq(RecConf)
                                      /\ Conf[k].local \in Seq(RecConf)
         /\ OwnRecs \in Seq(RecConf)
         /\ \A k \in Areas : RecsAt(k) \in Seq(RecConf) /\ Len(RecsAt(k)) \in 0 .. MaxRecs
                             /\ AreaSize(0, RecsAt(k)) \in Nat
         /\ \A k \in Areas : k \in SegKeys \ {DefKey}
         /\ AreaSize(0, <<>>) = 0
<1>1. /\ Conf \in Seq(AgentConf) /\ Len(Conf) <= MaxAgents
      /\ \A i \in DOMAIN Conf : (Len(Conf[i].shared) + Len(Conf[i].local)) <= MaxRecs
  BY ConfigurationRead DEF Typed, Conf
<1>2. Len(Conf) \in Nat /\ DOMAIN Conf = 1 .. Len(Conf)
  BY <1>1
<1>3. \A k \in 1 .. Len(Conf) : Conf[k] \in AgentConf
  BY <1>1
<1>4. ASSUME NEW k \in 1 .. Len(Conf)
      PROVE  /\ Conf[k].shared \in Seq(RecConf) /\ Conf[k].local \in Seq(RecConf)
             /\ Len(Conf[k].shared) \in 0 .. MaxRecs /\ Len(Conf[k].local) \in 0 .. MaxRecs
  <2> DEFINE s == Conf[k].shared
             l == Conf[k].local
  <2>1. s \in Seq(RecConf) /\ l \in Seq(RecConf)
    BY <1>3 DEF AgentConf
  <2>2. (Len(s) + Len(l)) <= MaxRecs
    BY <1>1, <1>2
  <2> HIDE DEF s, l
  <2>3. Len(s) \in Nat /\ Len(l) \in Nat /\ MaxRecs \in Nat
    BY <2>1, SegmentsConstants
  <2>4. Len(s) \in 0 .. MaxRecs /\ Len(l) \in 0 .. MaxRecs
    BY <2>2, <2>3
  <2> QED  BY <2>1, <2>4 DEF s, l
<1>5. OwnRecs \in Seq(RecConf) /\ Len(OwnRecs) \in 0 .. MaxRecs
  <2>1. CASE Self < Len(Conf)
    <3>1. Self + 1 \in 1 .. Len(Conf)
      BY <1>2, <2>1, SegmentsConstants
    <3> QED  BY <1>4, <2>1, <3>1 DEF OwnRecs
  <2>2. CASE ~(Self < Len(Conf))
    <3>1. OwnRecs = <<>> /\ <<>> \in Seq(RecConf) /\ Len(<<>>) = 0
      BY <2>2 DEF OwnRecs
    <3> QED  BY <3>1, SegmentsConstants
  <2> QED  BY <2>1, <2>2
<1>6. ASSUME NEW k \in Areas
      PROVE  RecsAt(k) \in Seq(RecConf) /\ Len(RecsAt(k)) \in 0 .. MaxRecs
             /\ AreaSize(0, RecsAt(k)) \in Nat
  <2>1. k = Len(Conf) + 1 \/ k \in 1 .. Len(Conf)
    BY <1>2 DEF Areas
  <2>2. RecsAt(k) \in Seq(RecConf) /\ Len(RecsAt(k)) \in 0 .. MaxRecs
    BY <1>4, <1>5, <2>1 DEF RecsAt
  <2> QED  BY <2>2, AreaTyped
<1>7. \A k \in Areas : k \in SegKeys \ {DefKey}
  BY <1>1, <1>2, SegmentsConstants DEF Areas, SegKeys, DefKey
<1>8. AreaSize(0, <<>>) = 0
  <2>1. <<>> \in Seq(RecConf) /\ Len(<<>>) = 0
    OBVIOUS
  <2>2. DataSize(<<>>, Len(<<>>)) = 0
    BY <2>1, SumUnfolds
  <2> QED  BY <2>1, <2>2, SegmentsConstants DEF AreaSize
<1> QED  BY <1>1, <1>2, <1>4, <1>5, <1>6, <1>7, <1>8

(***************************************************************************)
(* One process starts or stops at a time.                                  *)
(***************************************************************************)
OneBusy == \A p, q \in Procs : Busy(p) /\ Busy(q) => p = q

Acts(p) ==
  Start(p) \/ Load(p) \/ Attach(p) \/ Check(p) \/ Leave(p) \/ Detach(p) \/ Crash(p)

\* Everybody but p is off or ready, and stays as he is.
Calm(p) ==
  \A q \in Procs \ {p} : pc[q] \in {"off", "ready"} /\ pc'[q] = pc[q] /\ got'[q] = got[q]

LEMMA ActsInCalm ==
  ASSUME Serial, Shape, OneBusy, NEW p \in Procs, Acts(p)
  PROVE  Calm(p)
<1>1. pc \in [Procs -> States] /\ got \in [Procs -> Seq(SegKeys)]
  BY DEF Shape, Typed
<1>2. ASSUME NEW q \in Procs \ {p} PROVE pc'[q] = pc[q] /\ got'[q] = got[q]
  <2>1. CASE Start(p)
    BY <1>1, <2>1 DEF Start, AttachTo
  <2>2. CASE Load(p)
    BY <1>1, <2>2 DEF Load
  <2>3. CASE Attach(p)
    BY <1>1, <2>3 DEF Attach, AttachTo
  <2>4. CASE Check(p)
    BY <1>1, <2>4 DEF Check
  <2>5. CASE Leave(p)
    BY <1>1, <2>5 DEF Leave
  <2>6. CASE Detach(p)
    BY <1>1, <2>6 DEF Detach
  <2>7. CASE Crash(p)
    BY <1>1, <2>7 DEF Crash
  <2> QED  BY <2>1, <2>2, <2>3, <2>4, <2>5, <2>6, <2>7 DEF Acts
<1>3. Busy(p) \/ MayMeddle(p)
  BY DEF Acts, Start, Load, Attach, Check, Leave, Detach, Crash, Busy
<1>4. \A q \in Procs \ {p} : ~Busy(q)
  BY <1>3 DEF OneBusy, MayMeddle
<1> QED  BY <1>2, <1>4 DEF Calm, Busy

LEMMA OneActs == SegStep => \E p \in Procs : Acts(p)
BY DEF SegStep, SegNext, Acts

LEMMA OneBusyStep ==
  ASSUME Serial, Shape, OneBusy, [RtNext]_vars
  PROVE  OneBusy'
<1>1. CASE SegStep
  <2>1. PICK p \in Procs : Acts(p)
    BY <1>1, OneActs
  <2>2. Calm(p)
    BY <2>1, ActsInCalm
  <2> QED  BY <2>2 DEF Calm, OneBusy, Busy
<1>2. CASE Rest
  BY <1>2 DEF Rest, OneBusy, Busy
<1> QED  BY <1>1, <1>2, StepsAre

LEMMA RtInitIs ==
  RtInit => /\ seg = [k \in SegKeys |-> NoSegment] /\ def = NoDef
            /\ hdr = [k \in SegKeys |-> <<>>] /\ pc = [p \in Procs |-> "off"]
            /\ got = [p \in Procs |-> <<>>] /\ failures = 0
            /\ mem = [k \in SegKeys |-> <<>>] /\ op = [p \in Procs |-> Idle]
            /\ begun = [k \in SegKeys |-> Nothing] /\ newest = [k \in SegKeys |-> Nothing]
BY DEF RtInit, Init

(***************************************************************************)
(* A process that is past Load finds the definitions of the file, and its  *)
(* rtdb_conf filled in unless somebody is ready.                           *)
(***************************************************************************)
Up(p) == pc[p] \in {"attach", "check", "ready"}

Configured ==
  /\ Conf # <<>> /\ def.n = Len(Conf)
  /\ \A a \in Agents : a < Len(Conf) =>
       /\ def.recs[a] = Len(Conf[a + 1].shared)
       /\ AreaSize(0, Conf[a + 1].shared) <= def.shared[a]
  /\ AreaSize(0, OwnRecs) <= def.local

ConfInv ==
  /\ \A p \in Procs : Up(p) => Configured
  /\ \A p \in Procs : pc[p] \in {"attach", "check"} =>
       conf[p] = Conf \/ \E q \in Procs : pc[q] = "ready"

LEMMA LoadedConfigures ==
  ASSUME Typed, Conf # <<>>, file' = file, def' = Loaded(def, Conf)
  PROVE  Configured'
<1>1. /\ Conf \in Seq(AgentConf) /\ Len(Conf) <= MaxAgents /\ def \in Tables /\ Conf' = Conf
      /\ OwnRecs' = OwnRecs
  BY ConfFacts DEF Typed, Conf, OwnRecs
<1>2. /\ def'.n = Len(Conf)
      /\ \A a \in Agents : a < Len(Conf) =>
           /\ def'.recs[a] = Len(Conf[a + 1].shared)
           /\ def'.shared[a] = AreaSize(def.shared[a], Conf[a + 1].shared)
      /\ Self < Len(Conf) => def'.local = AreaSize(def.local, Conf[Self + 1].local)
      /\ def' \in Tables
  BY <1>1, LoadedTyped
<1>3. ASSUME NEW a \in Agents, a < Len(Conf)
      PROVE  AreaSize(0, Conf[a + 1].shared) <= def'.shared[a]
  <2>1. a + 1 \in 1 .. Len(Conf) /\ def.shared[a] \in Nat
    BY <1>1, <1>3, SegmentsConstants DEF Agents, Tables
  <2> QED  BY <1>2, <1>3, <2>1, ConfFacts, AreaTyped
<1>4. AreaSize(0, OwnRecs) <= def'.local
  <2>1. CASE Self < Len(Conf)
    <3>1. OwnRecs = Conf[Self + 1].local /\ OwnRecs \in Seq(RecConf) /\ def.local \in Nat
      BY <1>1, <2>1, ConfFacts DEF OwnRecs, Tables
    <3> QED  BY <1>2, <2>1, <3>1, AreaTyped
  <2>2. CASE ~(Self < Len(Conf))
    <3>1. AreaSize(0, OwnRecs) = 0 /\ def'.local \in Nat
      BY <1>2, <2>2, ConfFacts DEF OwnRecs, Tables
    <3> QED  BY <3>1
  <2> QED  BY <2>1, <2>2
<1> QED  BY <1>1, <1>2, <1>3, <1>4 DEF Configured

\* Who is not the first to attach a segment shares it with somebody ready.
LEMMA Company ==
  ASSUME Shape, NEW p \in Procs, NEW k \in SegKeys, p \in seg[k].att, ~IsFirst(k), Calm(p)
  PROVE  \E q \in Procs \ {p} : pc[q] = "ready" /\ q \in seg[k].att
<1>1. seg[k].att # {p} /\ seg[k].att \subseteq Procs
  BY FirstIsAlone DEF Shape, Typed
<1>2. PICK q \in Procs \ {p} : q \in seg[k].att
  BY <1>1
<1>3. GotShape(q) /\ Range(<<>>) = {}
  BY DEF Shape, Range
<1>4. pc[q] # "off"
  BY <1>2, <1>3 DEF GotShape
<1> QED  BY <1>2, <1>4 DEF Calm

\* Who is ready is attached to the definitions and to all areas.
LEMMA ReadyHolds ==
  ASSUME Shape, NEW p \in Procs, pc[p] \in {"check", "ready"}
  PROVE  /\ \A k \in 0 .. LocalKey : k \in SegKeys /\ p \in seg[k].att
         /\ Range(got[p]) = 0 .. LocalKey
<1>1. Range(got[p]) = 0 .. Len(got[p]) - 1 /\ GotShape(p)
  BY HoldsShape DEF Shape
<1>2. Len(got[p]) = LocalKey + 1
  BY <1>1 DEF GotShape
<1>3. LocalKey \in Nat /\ LocalKey = def.n + 1 /\ def.n \in Nat /\ def.n <= MaxAgents
  BY LocalKeyFacts, KeyFacts DEF Shape
<1>4. Range(got[p]) = 0 .. LocalKey
  <2>1. Len(got[p]) - 1 = LocalKey
    BY <1>2, <1>3
  <2> QED  BY <1>1, <2>1
<1>5. \A k \in 0 .. LocalKey : k \in SegKeys
  BY <1>3, KeyFacts
<1> QED  BY <1>1, <1>4, <1>5 DEF GotShape

\* Attachments of somebody ready outlast what another process does.
LEMMA DefStays ==
  ASSUME Shape, NEW p \in Procs, Acts(p), Calm(p),
         NEW q \in Procs \ {p}, pc[q] = "ready"
  PROVE  \/ UNCHANGED def
         \/ Check(p) /\ IsFirst(LocalKey) /\ def' = [def EXCEPT !.lut = Lookup(conf[p])]
<1>1. q \in seg[DefKey].att
  BY HoldsShape
<1>2. CASE Load(p)
  <2>1. ~IsFirst(DefKey)
    <3>1. pc[p] = "load"
      BY <1>2 DEF Load
    <3>2. p \in seg[DefKey].att
      BY <3>1, HoldsShape
    <3> QED  BY <1>1, <3>2, FirstIsAlone, KeyFacts
  <2> QED  BY <1>2, <2>1 DEF Load
<1>3. CASE Detach(p)
  <2>1. ~(IsLast(p, DefKey))
    BY <1>1 DEF IsLast, Remaining
  <2> QED  BY <1>3, <2>1 DEF Detach
<1>4. CASE Check(p)
  BY <1>4 DEF Check
<1>5. CASE Start(p) \/ Attach(p) \/ Leave(p) \/ Crash(p)
  BY <1>5 DEF Start, Attach, Leave, Crash
<1> QED  BY <1>2, <1>3, <1>4, <1>5 DEF Acts

LEMMA ConfStays ==
  ASSUME [RtNext]_vars
  PROVE  file' = file /\ Conf' = Conf /\ OwnRecs' = OwnRecs /\ Areas' = Areas
<1>1. file' = file
  BY StepsAre DEF Rest, SegStep, SegNext, Start, Load, Attach, Check, Leave, Detach, Crash
<1> QED  BY <1>1 DEF Conf, OwnRecs, Areas

LEMMA ConfiguredStays ==
  ASSUME Shape, Configured, file' = file,
         \/ UNCHANGED def
         \/ \E l : def' = [def EXCEPT !.lut = l]
  PROVE  Configured'
<1>1. def'.n = def.n /\ def'.recs = def.recs /\ def'.shared = def.shared /\ def'.local = def.local
  BY DEF Shape, Typed, Tables
<1>2. Conf' = Conf /\ OwnRecs' = OwnRecs
  BY DEF Conf, OwnRecs
<1> QED  BY <1>1, <1>2 DEF Configured

LEMMA ConfStep ==
  ASSUME Serial, Shape, OneBusy, ConfInv, [RtNext]_vars
  PROVE  ConfInv'
<1>1. CASE Rest
  BY <1>1 DEF Rest, ConfInv, Up, Configured, Conf, OwnRecs
<1>2. CASE SegStep
  <2>1. PICK p \in Procs : Acts(p)
    BY <1>2, OneActs
  <2>2. Calm(p) /\ pc \in [Procs -> States] /\ Typed
    BY <2>1, ActsInCalm DEF Shape, Typed
  <2>3. file' = file /\ Conf' = Conf /\ OwnRecs' = OwnRecs
    BY ConfStays
  <2>4. ASSUME NEW q \in Procs \ {p}, Up(q)' PROVE Configured'
    <3>1. pc[q] = "ready" /\ Up(q)
      BY <2>2, <2>4 DEF Calm, Up
    <3>2. Configured
      BY <3>1 DEF ConfInv
    <3> QED  BY <2>1, <2>2, <2>3, <3>1, <3>2, DefStays, ConfiguredStays
  <2>5. ASSUME Up(p)' PROVE Configured'
    <3>1. CASE Load(p)
      <4>1. pc[p] = "load" /\ p \in seg[DefKey].att
        BY <3>1, HoldsShape DEF Load
      <4>2. CASE IsFirst(DefKey)
        <5>1. ~(Len(Conf) < 1) /\ def' = Loaded(def, Conf)
          BY <2>2, <2>5, <3>1, <4>2 DEF Load, Conf, Up
        <5>2. Conf # <<>>
          BY <5>1
        <5> QED  BY <2>2, <2>3, <5>1, <5>2, LoadedConfigures
      <4>3. CASE ~IsFirst(DefKey)
        <5>1. \E q \in Procs \ {p} : pc[q] = "ready"
          BY <2>2, <4>1, <4>3, Company, KeyFacts
        <5>2. Configured /\ def' = def
          BY <3>1, <4>3, <5>1 DEF ConfInv, Up, Load
        <5> QED  BY <2>3, <5>2, ConfiguredStays
      <4> QED  BY <4>2, <4>3
    <3>2. CASE Attach(p) \/ Check(p)
      <4>1. Up(p)
        BY <3>2 DEF Attach, Check, Up
      <4>2. UNCHANGED def \/ \E l : def' = [def EXCEPT !.lut = l]
        BY <3>2 DEF Attach, Check
      <4> QED  BY <2>3, <4>1, <4>2, ConfiguredStays DEF ConfInv
    <3>3. CASE Start(p) \/ Leave(p) \/ Detach(p) \/ Crash(p)
      BY <2>2, <2>5, <3>3 DEF Start, Leave, Detach, Crash, Up
    <3> QED  BY <2>1, <3>1, <3>2, <3>3 DEF Acts
  <2>6. ASSUME NEW q \in Procs, pc'[q] \in {"attach", "check"}
        PROVE  conf'[q] = Conf' \/ \E r \in Procs : pc'[r] = "ready"
    <3>1. q = p
      BY <2>2, <2>6 DEF Calm
    <3>2. CASE Load(p)
      <4>1. pc[p] = "load" /\ p \in seg[DefKey].att
        BY <3>2, HoldsShape DEF Load
      <4>2. CASE IsFirst(DefKey)
        BY <2>2, <2>3, <2>6, <3>1, <3>2, <4>2 DEF Load, Typed, Conf
      <4>3. CASE ~IsFirst(DefKey)
        <5>1. PICK r \in Procs \ {p} : pc[r] = "ready"
          BY <2>2, <4>1, <4>3, Company, KeyFacts
        <5> QED  BY <2>2, <5>1 DEF Calm
      <4> QED  BY <4>2, <4>3
    <3>3. CASE Attach(p)
      <4>1. pc[p] = "attach" /\ conf'[p] = conf[p]
        BY <3>3 DEF Attach
      <4>2. conf[p] = Conf \/ \E r \in Procs \ {p} : pc[r] = "ready"
        BY <4>1 DEF ConfInv
      <4> QED  BY <2>2, <2>3, <3>1, <4>1, <4>2 DEF Calm
    <3>4. CASE Start(p) \/ Check(p) \/ Leave(p) \/ Detach(p) \/ Crash(p)
      BY <2>2, <2>6, <3>1, <3>4 DEF Start, Check, Leave, Detach, Crash
    <3> QED  BY <2>1, <3>2, <3>3, <3>4 DEF Acts
  <2> QED  BY <2>4, <2>5, <2>6 DEF ConfInv
<1> QED  BY <1>1, <1>2, StepsAre

(***************************************************************************)
(* Segments are as large as the file asks, at least.                       *)
(***************************************************************************)
SizeInv ==
  /\ \A k \in SegKeys \ {DefKey} : seg[k].size # 0 =>
       k \in Areas /\ AreaSize(0, RecsAt(k)) <= seg[k].size
  /\ \A p \in Procs : Up(p) => \A k \in Range(got[p]) \ {DefKey} : SizeOf(k) <= seg[k].size

\* What an area is asked to be by who has been configured.
LEMMA AskedSize ==
  ASSUME Typed, Configured, NEW k \in 1 .. LocalKey
  PROVE  /\ k \in Areas /\ k \in SegKeys \ {DefKey}
         /\ SizeOf(k) \in Nat /\ AreaSize(0, RecsAt(k)) <= SizeOf(k)
         /\ AreaSize(0, RecsAt(k)) \in Nat
<1>1. /\ LocalKey = Len(Conf) + 1 /\ Len(Conf) \in Nat /\ Len(Conf) <= MaxAgents /\ def \in Tables
      /\ MaxAgents \in Nat
  BY LocalKeyFacts, ConfFacts, SegmentsConstants DEF Configured, Typed
<1>2. k \in Areas
  BY <1>1 DEF Areas
<1>3. k \in SegKeys \ {DefKey} /\ AreaSize(0, RecsAt(k)) \in Nat
  BY <1>2, ConfFacts
<1>4. CASE k = LocalKey
  <2>1. RecsAt(k) = OwnRecs /\ AreaSize(0, OwnRecs) <= def.local /\ def.local \in Nat
    BY <1>1, <1>4 DEF RecsAt, Configured, Tables
  <2> QED  BY <1>2, <1>3, <1>4, <2>1 DEF SizeOf
<1>5. CASE k # LocalKey
  <2>1. k - 1 \in Agents /\ k - 1 < Len(Conf) /\ (k - 1) + 1 = k
    BY <1>1, <1>5 DEF Agents
  <2>2. AreaSize(0, Conf[k].shared) <= def.shared[k - 1] /\ def.shared[k - 1] \in Nat
    BY <1>1, <2>1 DEF Configured, Tables
  <2>3. RecsAt(k) = Conf[k].shared /\ SizeOf(k) = def.shared[k - 1]
    BY <1>1, <1>5 DEF RecsAt, SizeOf
  <2> QED  BY <1>2, <1>3, <2>2, <2>3
<1> QED  BY <1>4, <1>5

LEMMA RecsStay ==
  ASSUME [RtNext]_vars
  PROVE  \A k : RecsAt(k)' = RecsAt(k)
BY ConfStays DEF RecsAt

\* A segment keeps its size while somebody stays attached to it.
LEMMA SizeStays ==
  ASSUME Shape, NEW p \in Procs, Acts(p), NEW q \in Procs \ {p}, NEW k \in SegKeys,
         q \in seg[k].att
  PROVE  seg'[k].size = seg[k].size
<1>1. seg \in [SegKeys -> [size : Nat, att : SUBSET Procs]] /\ seg[k].size # 0
  <2>1. seg \in [SegKeys -> [size : Nat, att : SUBSET Procs]] /\ SegmentShape(k)
    BY DEF Shape, Typed
  <2>2. seg[k].size > 0 /\ seg[k].size \in Nat
    BY <2>1 DEF SegmentShape
  <2> QED  BY <2>1, <2>2
<1>2. CASE Start(p)
  BY <1>1, <1>2 DEF Start, AttachTo
<1>3. CASE Attach(p)
  BY <1>1, <1>3 DEF Attach, AttachTo
<1>4. CASE Detach(p)
  <2> DEFINE i == NextDetached(p)
             j == got[p][i]
  <2>1. ~IsLast(p, k)
    BY DEF IsLast, Remaining
  <2>2. seg' = [seg EXCEPT ![j] = IF IsLast(p, j) THEN NoSegment
                                  ELSE [seg[j] EXCEPT !.att = Remaining(p, j)]]
    BY <1>4 DEF Detach
  <2> HIDE DEF i, j
  <2>3. CASE j = k
    <3>1. seg'[k] = [seg[k] EXCEPT !.att = Remaining(p, k)]
      BY <1>1, <2>1, <2>2, <2>3
    <3> QED  BY <1>1, <3>1
  <2>4. CASE j # k
    BY <1>1, <2>2, <2>4
  <2> QED  BY <2>3, <2>4
<1>5. CASE Crash(p)
  BY <1>1, <1>5 DEF Crash
<1>6. CASE Load(p) \/ Check(p) \/ Leave(p)
  BY <1>6 DEF Load, Check, Leave
<1> QED  BY <1>2, <1>3, <1>4, <1>5, <1>6 DEF Acts

\* What segments become, whoever does it: an area made anew, or what it was, or
\* nothing.
LEMMA SizesGo ==
  ASSUME Shape, NEW p \in Procs, Acts(p), NEW k \in SegKeys \ {DefKey}
  PROVE  \/ seg'[k].size = seg[k].size
         \/ seg'[k].size = 0
         \/ /\ pc[p] = "attach" /\ k = Len(got[p]) /\ seg[k].size = 0
            /\ seg'[k].size = SizeOf(k)
<1>1. seg \in [SegKeys -> [size : Nat, att : SUBSET Procs]]
  BY DEF Shape, Typed
<1>2. CASE Start(p)
  BY <1>1, <1>2 DEF Start, AttachTo
<1>3. CASE Attach(p)
  <2> DEFINE j == DefKey + Len(got[p])
  <2>1. pc[p] = "attach" /\ (UNCHANGED seg \/ AttachTo(p, j, SizeOf(j)))
    BY <1>3 DEF Attach
  <2>2. j = Len(got[p])
    BY HoldsShape DEF DefKey
  <2>3. AttachTo(p, j, SizeOf(j)) =>
          seg' = [seg EXCEPT ![j] = [size |-> IF seg[j].size = 0 THEN SizeOf(j) ELSE seg[j].size,
                                     att |-> seg[j].att \union {p}]]
    BY DEF AttachTo
  <2> HIDE DEF j
  <2> QED  BY <1>1, <2>1, <2>2, <2>3
<1>4. CASE Detach(p)
  <2> DEFINE i == NextDetached(p)
             j == got[p][i]
  <2>1. seg' = [seg EXCEPT ![j] = IF IsLast(p, j) THEN NoSegment
                                  ELSE [seg[j] EXCEPT !.att = Remaining(p, j)]]
    BY <1>4 DEF Detach
  <2> HIDE DEF i, j
  <2>2. CASE j = k
    <3>1. seg'[k] = NoSegment \/ seg'[k] = [seg[k] EXCEPT !.att = Remaining(p, k)]
      BY <1>1, <2>1, <2>2
    <3> QED  BY <1>1, <3>1 DEF NoSegment
  <2>3. CASE j # k
    BY <1>1, <2>1, <2>3
  <2> QED  BY <2>2, <2>3
<1>5. CASE Crash(p)
  BY <1>1, <1>5 DEF Crash
<1>6. CASE Load(p) \/ Check(p) \/ Leave(p)
  BY <1>6 DEF Load, Check, Leave
<1> QED  BY <1>2, <1>3, <1>4, <1>5, <1>6 DEF Acts

LEMMA SizeStep ==
  ASSUME Serial, Shape, OneBusy, ConfInv, SizeInv, [RtNext]_vars, Shape'
  PROVE  SizeInv'
<1>1. CASE Rest
  BY <1>1 DEF Rest, SizeInv, Up, Conf, OwnRecs, Areas, RecsAt, SizeOf, LocalKey
<1>2. CASE SegStep
  <2>1. PICK p \in Procs : Acts(p)
    BY <1>2, OneActs
  <2>2. Calm(p) /\ pc \in [Procs -> States] /\ Typed
    BY <2>1, ActsInCalm DEF Shape, Typed
  <2>3. Areas' = Areas /\ \A k : RecsAt(k)' = RecsAt(k)
    BY ConfStays, RecsStay
  <2>4. ASSUME NEW k \in SegKeys \ {DefKey}, seg'[k].size # 0
        PROVE  k \in Areas /\ AreaSize(0, RecsAt(k)) <= seg'[k].size
    <3>1. CASE seg'[k].size = seg[k].size
      BY <2>4, <3>1 DEF SizeInv
    <3>2. CASE pc[p] = "attach" /\ k = Len(got[p]) /\ seg'[k].size = SizeOf(k)
      <4>1. Configured /\ k \in 1 .. LocalKey
        BY <3>2 DEF ConfInv, Up, Shape, GotShape
      <4> QED  BY <2>2, <3>2, <4>1, AskedSize
    <3> QED  BY <2>1, <2>4, <3>1, <3>2, SizesGo
  <2>5. ASSUME NEW q \in Procs \ {p}, Up(q)', NEW k \in Range(got'[q]) \ {DefKey}
        PROVE  SizeOf(k)' <= seg'[k].size
    <3>1. pc[q] = "ready" /\ Up(q) /\ k \in Range(got[q]) \ {DefKey} /\ k \in SegKeys
          /\ q \in seg[k].att
      <4>1. pc[q] = "ready" /\ Up(q) /\ k \in Range(got[q]) \ {DefKey}
        BY <2>2, <2>5 DEF Calm, Up
      <4>2. k \in SegKeys /\ q \in seg[k].att
        BY <4>1, ReadyHolds, LocalKeyFacts DEF Shape
      <4> QED  BY <4>1, <4>2
    <3>2. SizeOf(k) <= seg[k].size
      BY <3>1 DEF SizeInv
    <3>3. seg'[k].size = seg[k].size
      BY <2>1, <3>1, SizeStays
    <3>4. SizeOf(k)' = SizeOf(k)
      <4>1. UNCHANGED def \/ def' = [def EXCEPT !.lut = Lookup(conf[p])]
        BY <2>1, <2>2, <3>1, DefStays
      <4>2. def'.n = def.n /\ def'.shared = def.shared /\ def'.local = def.local
        BY <2>2, <4>1 DEF Typed, Tables
      <4> QED  BY <4>2 DEF SizeOf, LocalKey
    <3> QED  BY <3>2, <3>3, <3>4
  <2>6. ASSUME Up(p)', NEW k \in Range(got'[p]) \ {DefKey}
        PROVE  SizeOf(k)' <= seg'[k].size
    <3>1. CASE Load(p)
      <4>1. got'[p] = got[p] /\ Len(got[p]) = 1 /\ got[p][1] = DefKey
            /\ DOMAIN got[p] = 1 .. Len(got[p])
        BY <3>1, HoldsShape DEF Load, Shape, GotShape
      <4>2. Range(got[p]) = {DefKey}
        BY <4>1 DEF Range
      <4> QED  BY <2>6, <4>1, <4>2
    <3>2. CASE Attach(p)
      <4> DEFINE j == Len(got[p])
      <4>1. /\ pc[p] = "attach" /\ UNCHANGED def /\ DefKey + j = j
            /\ (pc'[p] # "fail" => AttachTo(p, j, SizeOf(j)) /\ Shmget(j, SizeOf(j)))
        <5>1. DefKey + j = j
          BY HoldsShape DEF DefKey
        <5> HIDE DEF j
        <5> QED  BY <2>2, <3>2, <5>1 DEF Attach, j
      <4>2. Configured /\ j \in 1 .. LocalKey
        BY <4>1 DEF ConfInv, Up, Shape, GotShape
      <4>3. AttachTo(p, j, SizeOf(j)) /\ Shmget(j, SizeOf(j))
        BY <2>6, <4>1 DEF Up
      <4>4. j \in SegKeys /\ SizeOf(j) \in Nat
        BY <2>2, <4>2, AskedSize
      <4>5. seg' = [seg EXCEPT ![j] = [size |-> IF seg[j].size = 0 THEN SizeOf(j) ELSE seg[j].size,
                                       att |-> seg[j].att \union {p}]]
            /\ got'[p] = Append(got[p], j)
        BY <2>2, <4>3 DEF AttachTo, Typed
      <4> HIDE DEF j
      <4>6. /\ \A i \in SegKeys : i # j => seg'[i] = seg[i]
            /\ seg'[j].size = IF seg[j].size = 0 THEN SizeOf(j) ELSE seg[j].size
        BY <2>2, <4>4, <4>5 DEF Typed
      <4>7. SizeOf(j) <= seg'[j].size
        BY <4>3, <4>4, <4>6 DEF Shmget
      <4>8. Range(got'[p]) = Range(got[p]) \union {j} /\ Range(got[p]) \subseteq SegKeys
        <5>1. got[p] \in Seq(SegKeys)
          BY <2>2 DEF Typed
        <5>2. Range(got[p]) \subseteq SegKeys
          BY <5>1 DEF Range
        <5> QED  BY <4>4, <4>5, <5>1, <5>2, AppendedRange
      <4>9. SizeOf(k)' = SizeOf(k)
        BY <4>1 DEF SizeOf, LocalKey
      <4>10. CASE k = j
        BY <4>7, <4>9, <4>10
      <4>11. CASE k # j
        <5>1. k \in Range(got[p]) \ {DefKey} /\ k \in SegKeys /\ Up(p)
          BY <2>6, <4>1, <4>8, <4>11 DEF Up
        <5>2. SizeOf(k) <= seg[k].size
          BY <5>1 DEF SizeInv
        <5> QED  BY <4>6, <4>9, <4>11, <5>1, <5>2
      <4> QED  BY <4>10, <4>11
    <3>3. CASE Check(p)
      <4>1. Up(p) /\ got'[p] = got[p] /\ seg' = seg
        BY <3>3 DEF Check, Up
      <4>2. UNCHANGED def \/ def' = [def EXCEPT !.lut = Lookup(conf[p])]
        BY <3>3 DEF Check
      <4>3. def'.n = def.n /\ def'.shared = def.shared /\ def'.local = def.local
        BY <2>2, <4>2 DEF Typed, Tables
      <4>4. SizeOf(k)' = SizeOf(k)
        BY <4>3 DEF SizeOf, LocalKey
      <4> QED  BY <2>6, <4>1, <4>4 DEF SizeInv
    <3>4. CASE Start(p) \/ Leave(p) \/ Detach(p) \/ Crash(p)
      BY <2>2, <2>6, <3>4 DEF Start, Leave, Detach, Crash, Up
    <3> QED  BY <2>1, <3>1, <3>2, <3>3, <3>4 DEF Acts
  <2>7. \A q \in Procs : Up(q)' => \A k \in Range(got'[q]) \ {DefKey} : SizeOf(k)' <= seg'[k].size
    BY <2>5, <2>6
  <2> QED  BY <2>3, <2>4, <2>7 DEF SizeInv
<1> QED  BY <1>1, <1>2, StepsAre

(***************************************************************************)
(* The headers in the areas, and what is under way.                        *)
(***************************************************************************)
HdrInv ==
  /\ DOMAIN hdr = SegKeys
  /\ \A k \in SegKeys :
       hdr[k] = <<>> \/ (k \in Areas /\ seg[k].size # 0 /\ IsLayout(hdr[k], RecsAt(k)))
  /\ (\E p \in Procs : pc[p] = "ready") =>
       def.lut = Lookup(Conf) /\ \A k \in Areas : IsLayout(hdr[k], RecsAt(k))

\* Who puts the j-th record of area k.
Owner(p, k, j) ==
  \E a \in Agents, i \in Ids :
    /\ <<p, a, i>> \in Puts /\ RecsAt(k)[j].id = i
    /\ a = IF k = Len(Conf) + 1 THEN Self ELSE k - 1

PutOps == [kind : {"put"}, k : Nat, j : Nat, at : Nat, bank : {0, 1}, put : Nat]
GetOps == [kind : {"get"}, k : Nat, j : Nat, seen : Seq(Nat), bank : {0, 1}, first : Nat]

\* An operation is one of somebody ready, on a record of the file.
OpsAt(p) == pc[p] = "ready" /\ op[p].k \in Areas /\ op[p].j \in 1 .. Len(RecsAt(op[p].k))

OpInv(p) ==
  \/ op[p] = Idle
  \/ /\ op[p] \in PutOps /\ OpsAt(p) /\ Owner(p, op[p].k, op[p].j)
     /\ op[p].put \in 1 .. begun[op[p].k][op[p].j]
  \/ op[p] \in GetOps /\ OpsAt(p)

OpsInv == DOMAIN op = Procs /\ \A p \in Procs : OpInv(p)

CountInv ==
  /\ begun \in [SegKeys -> [Places -> 0 .. MaxPuts]]
  /\ newest \in [SegKeys -> [Places -> Nat]]
  /\ \A k \in SegKeys : \A j \in Places : newest[k][j] <= begun[k][j]

MemInv ==
  /\ DOMAIN mem = SegKeys
  /\ \A k \in SegKeys : seg[k].size = 0 => mem[k] = <<>>
  /\ \A k \in SegKeys : DOMAIN mem[k] \subseteq Nat
  /\ \A k \in SegKeys : \A x \in DOMAIN mem[k] : mem[k][x] \in 1 .. MaxPuts

RtInv == HdrInv /\ OpsInv /\ CountInv /\ MemInv

\* What a step of the database is.
LEMMA CasesAre ==
  ASSUME [RtNext]_vars
  PROVE  \/ SegStep
         \/ \E p \in Procs, a \in Agents, i \in Ids : <<p, a, i>> \in Puts /\ PutIn(p, a, i)
         \/ \E p \in Procs, a \in Agents, i \in Ids : DBGet(p, a, i)
         \/ \E p \in Procs : PutCell(p) \/ PutEnd(p) \/ GetCell(p)
         \/ UNCHANGED vars
<1>1. \A x \in Puts : /\ x[1] \in Procs /\ x[2] \in Agents /\ x[3] \in Ids
                      /\ x = <<x[1], x[2], x[3]>>
  BY RtDB1Constants
<1>2. \A x \in Gets : x[1] \in Procs /\ x[2] \in Agents /\ x[3] \in Ids
  BY RtDB1Constants
<1>3. CASE \E x \in Puts : DBPut(x[1], x[3]) /\ x[2] = Self
  BY <1>1, <1>3 DEF DBPut
<1>4. CASE \E x \in Puts : DBCommPut(x[1], x[2], x[3])
  BY <1>1, <1>4 DEF DBCommPut
<1>5. CASE \E x \in Gets : DBGet(x[1], x[2], x[3])
  BY <1>2, <1>5
<1> QED  BY <1>3, <1>4, <1>5 DEF RtNext

\* The index table leads to the record of the identifier, and to nobody else's.
LEMMA FoundAt ==
  ASSUME Typed, Configured, def.lut = Lookup(Conf), NEW a \in Agents, NEW i \in Ids, Found(a, i)
  PROVE  LET k == KeyOf(a, i)
             j == PlaceIn(a, i)
         IN  /\ k \in Areas /\ j \in 1 .. Len(RecsAt(k)) /\ RecsAt(k)[j].id = i
             /\ a = IF k = Len(Conf) + 1 THEN Self ELSE k - 1
             /\ IsLocal(a, i) <=> k = Len(Conf) + 1
<1>1. /\ Conf \in Seq(AgentConf) /\ Len(Conf) \in Nat /\ LocalKey = Len(Conf) + 1 /\ a \in Nat
      /\ MaxRecs \in Nat \ {0} /\ Self \in Nat
  BY ConfFacts, LocalKeyFacts, SegmentsConstants DEF Configured, Agents
<1> DEFINE l == Max(PlaceOf(Conf[a + 1].local, i))
           s == Max(PlaceOf(Conf[a + 1].shared, i))
           x == def.lut[a][i]
<1>2. x = IF a >= Len(Conf) THEN NoRec
          ELSE IF a = Self /\ PlaceOf(Conf[a + 1].local, i) # {} THEN MaxRecs + l - 1
          ELSE IF PlaceOf(Conf[a + 1].shared, i) # {} THEN s - 1 ELSE NoRec
  BY DEF Lookup
<1>3. x # NoRec
  BY DEF Found
<1>4. ~(a >= Len(Conf)) /\ a < Len(Conf) /\ a + 1 \in 1 .. Len(Conf)
  BY <1>1, <1>2, <1>3
<1>5. /\ Conf[a + 1].shared \in Seq(RecConf) /\ Conf[a + 1].local \in Seq(RecConf)
      /\ a + 1 \in Areas /\ Len(Conf) + 1 \in Areas
  BY <1>1, <1>4, ConfFacts DEF Areas
<1>6. CASE a = Self /\ PlaceOf(Conf[a + 1].local, i) # {}
  <2>1. l \in 1 .. Len(Conf[a + 1].local) /\ Conf[a + 1].local[l].id = i
    BY <1>5, <1>6, PlacesAre
  <2>2. RecsAt(Len(Conf) + 1) = Conf[a + 1].local
    BY <1>4, <1>6 DEF RecsAt, OwnRecs
  <2>3. x = MaxRecs + l - 1 /\ l \in Nat /\ l >= 1
    <3>1. Len(Conf[a + 1].local) \in Nat
      BY <1>5
    <3> QED  BY <1>2, <1>4, <1>6, <2>1, <3>1
  <2> HIDE DEF l, s
  <2>4. IsLocal(a, i)
    BY <1>1, <2>3 DEF IsLocal
  <2>5. KeyOf(a, i) = Len(Conf) + 1 /\ PlaceIn(a, i) = l
    BY <1>1, <2>3, <2>4 DEF KeyOf, PlaceIn
  <2> QED  BY <1>5, <1>6, <2>1, <2>2, <2>4, <2>5
<1>7. CASE ~(a = Self /\ PlaceOf(Conf[a + 1].local, i) # {})
  <2>1. PlaceOf(Conf[a + 1].shared, i) # {} /\ x = s - 1
    BY <1>2, <1>3, <1>4, <1>7
  <2>2. s \in 1 .. Len(Conf[a + 1].shared) /\ Conf[a + 1].shared[s].id = i
    BY <1>5, <2>1, PlacesAre
  <2>3. a + 1 # Len(Conf) + 1 /\ (a + 1) - 1 = a
    BY <1>1, <1>4
  <2>4. RecsAt(a + 1) = Conf[a + 1].shared
    BY <2>3 DEF RecsAt
  <2>5. Len(Conf[a + 1].shared) \in 0 .. MaxRecs
    BY <1>5, <2>4, ConfFacts
  <2>6. s \in Nat /\ s >= 1 /\ s <= MaxRecs
    BY <1>1, <2>2, <2>5
  <2> HIDE DEF l, s
  <2>7. ~IsLocal(a, i)
    BY <1>1, <2>1, <2>6 DEF IsLocal
  <2>8. KeyOf(a, i) = a + 1 /\ PlaceIn(a, i) = s
    BY <1>1, <2>1, <2>6, <2>7 DEF KeyOf, PlaceIn, DefKey
  <2> QED  BY <1>5, <2>2, <2>3, <2>4, <2>7, <2>8
<1> QED  BY <1>6, <1>7

\* The cells of a bank.
LEMMA CellsAre ==
  ASSUME NEW recs \in Seq(RecConf), NEW h, IsLayout(h, recs), NEW j \in DOMAIN h,
         NEW b \in {0, 1}
  PROVE  LET c == Cells(h[j], j, b)
         IN  /\ Len(c) = h[j].size + 2 /\ h[j].size \in Nat
             /\ \A w \in 1 .. h[j].size : c[w] = Base(recs, j) + b * h[j].size + w - 1
             /\ c[h[j].size + 1] = SecAt(j, b) /\ c[h[j].size + 2] = UsecAt(j, b)
             /\ \A w \in 1 .. h[j].size + 2 : c[w] \in Nat
<1> DEFINE n == h[j].size
           v == [w \in 1 .. n |-> BankAt(h[j], j, b) + w - 1]
           t == <<SecAt(j, b), UsecAt(j, b)>>
           c == v \o t
<1>1. /\ j \in 1 .. Len(recs) /\ n \in Nat /\ Base(recs, j) \in Nat /\ Len(recs) \in Nat
      /\ BankAt(h[j], j, b) = Base(recs, j) + b * n
  BY BanksAre, RecTypes
<1>2. SecAt(j, b) \in Nat /\ UsecAt(j, b) \in Nat
  <2>1. (j - 1) * Header \in Nat
    <3>1. j - 1 \in Nat /\ Header \in Nat
      <4>1. Header \in Nat
        BY SegmentsConstants
      <4>2. j \in 1 .. Len(recs) /\ Len(recs) \in Nat
        BY BanksAre, RecTypes
      <4>3. j - 1 \in Nat
        BY ONLY <4>2
      <4> QED  BY <4>1, <4>3
    <3> DEFINE m == j - 1
    <3> HIDE DEF m
    <3>2. m * Header \in Nat
      BY <3>1 DEF m
    <3> QED  BY <3>2 DEF m
  <2> QED  BY <2>1 DEF SecAt, UsecAt
<1> HIDE DEF n
<1>3. /\ v \in Seq(Nat) /\ Len(v) = n
      /\ \A w \in 1 .. n : v[w] = Base(recs, j) + b * n + w - 1
  <2>1. \A w \in 1 .. n : v[w] = Base(recs, j) + b * n + w - 1 /\ v[w] \in Nat
    BY <1>1
  <2>2. v \in [1 .. n -> Nat]
    BY <2>1
  <2> HIDE DEF v
  <2>3. v \in Seq(Nat) /\ Len(v) = n
    BY <1>1, <2>2
  <2> QED  BY <2>1, <2>3
<1>4. t \in Seq(Nat) /\ Len(t) = 2 /\ t[1] = SecAt(j, b) /\ t[2] = UsecAt(j, b)
  BY <1>2
<1> HIDE DEF v, t
<1>5. /\ v \o t \in Seq(Nat) /\ Len(v \o t) = Len(v) + Len(t)
      /\ \A w \in 1 .. Len(v) + Len(t) : (v \o t)[w] = IF w <= Len(v) THEN v[w] ELSE t[w - Len(v)]
  <2>1. v \in Seq(Nat) /\ t \in Seq(Nat)
    BY <1>3, <1>4
  <2> QED  BY ONLY <2>1, ConcatProperties
<1>6. \A w \in 1 .. n + 2 : c[w] = IF w <= n THEN v[w] ELSE t[w - n]
  BY <1>3, <1>4, <1>5
<1>7. \A w \in 1 .. n : c[w] = Base(recs, j) + b * n + w - 1
  BY <1>1, <1>3, <1>6
<1>8. c[n + 1] = SecAt(j, b) /\ c[n + 2] = UsecAt(j, b)
  <2>1. n + 1 \in 1 .. n + 2 /\ n + 2 \in 1 .. n + 2 /\ ~(n + 1 <= n) /\ ~(n + 2 <= n)
        /\ (n + 1) - n = 1 /\ (n + 2) - n = 2
    BY <1>1
  <2> QED  BY <1>4, <1>6, <2>1
<1>9. Len(c) = n + 2 /\ c \in Seq(Nat)
  BY <1>3, <1>4, <1>5
<1>10. \A w \in 1 .. n + 2 : c[w] \in Nat
  <2> HIDE DEF c
  <2> QED  BY <1>9
<1>11. Cells(h[j], j, b) = c
  BY DEF Cells, n, v, t
<1> HIDE DEF c
<1> QED  BY <1>1, <1>7, <1>8, <1>9, <1>10, <1>11 DEF n

(***************************************************************************)
(* Laying out.                                                             *)
(***************************************************************************)
LEMMA LaidOutAre ==
  ASSUME Typed, Configured, HdrInv, NEW c, c = Conf \/ c = Uninitialised
  PROVE  /\ \A k \in SegKeys : \/ LaidOut(c)[k] = hdr[k]
                               \/ k \in Areas /\ IsLayout(LaidOut(c)[k], RecsAt(k))
         /\ c = Conf => \A k \in Areas : IsLayout(LaidOut(c)[k], RecsAt(k))
<1>1. /\ LocalKey = Len(Conf) + 1 /\ Len(Conf) \in Nat /\ Self \in Nat
      /\ \A k \in 1 .. Len(Conf) : Conf[k].shared \in Seq(RecConf)
      /\ OwnRecs \in Seq(RecConf)
      /\ \A k \in Areas : k \in SegKeys
  BY ConfFacts, LocalKeyFacts, SegmentsConstants DEF Configured
<1>2. \A k \in SegKeys :
        LaidOut(c)[k] = IF k \in 1 .. Len(c) THEN Layout(c[k].shared)
                        ELSE IF k = LocalKey /\ Self < Len(c) THEN Layout(c[Self + 1].local)
                        ELSE hdr[k]
  BY DEF LaidOut
<1>3. CASE c = Conf
  <2>1. ASSUME NEW k \in Areas PROVE IsLayout(LaidOut(c)[k], RecsAt(k))
    <3>1. k \in SegKeys
      BY <1>1, <2>1
    <3>2. CASE k \in 1 .. Len(Conf)
      <4>1. k # Len(Conf) + 1
        BY <1>1, <3>2
      <4> QED  BY <1>1, <1>2, <1>3, <3>1, <3>2, <4>1, LayoutMade DEF RecsAt
    <3>3. CASE k = Len(Conf) + 1 /\ Self < Len(Conf)
      <4>1. k \notin 1 .. Len(Conf)
        BY <1>1, <3>3
      <4>2. LaidOut(c)[k] = Layout(OwnRecs) /\ RecsAt(k) = OwnRecs
        BY <1>1, <1>2, <1>3, <3>1, <3>3, <4>1 DEF OwnRecs, RecsAt
      <4> QED  BY <1>1, <4>2, LayoutMade
    <3>4. CASE k = Len(Conf) + 1 /\ ~(Self < Len(Conf))
      <4>1. k \notin 1 .. Len(Conf)
        BY <1>1, <3>4
      <4>2. LaidOut(c)[k] = hdr[k] /\ RecsAt(k) = <<>>
        BY <1>1, <1>2, <1>3, <3>1, <3>4, <4>1 DEF OwnRecs, RecsAt
      <4>3. hdr[k] = <<>> => IsLayout(hdr[k], RecsAt(k))
        BY <4>2 DEF IsLayout
      <4> QED  BY <3>1, <4>2, <4>3 DEF HdrInv
    <3> QED  BY <1>1, <3>2, <3>3, <3>4 DEF Areas
  <2>2. ASSUME NEW k \in SegKeys, k \notin Areas PROVE LaidOut(c)[k] = hdr[k]
    <3>1. k \notin 1 .. Len(Conf) /\ k # LocalKey
      BY <1>1, <2>2 DEF Areas
    <3> QED  BY <1>2, <1>3, <3>1
  <2> QED  BY <2>1, <2>2
<1>4. CASE c = Uninitialised /\ c # Conf
  <2>1. Len(c) = 0 /\ ~(Self < Len(c)) /\ 1 .. Len(c) = {}
    BY <1>1, <1>4 DEF Uninitialised
  <2>2. \A k \in SegKeys : LaidOut(c)[k] = hdr[k]
    BY <1>2, <2>1
  <2> QED  BY <1>4, <2>2
<1> QED  BY <1>3, <1>4

\* What becomes of the headers of a segment.
LEMMA HdrGoes ==
  ASSUME Shape, DOMAIN hdr = SegKeys, NEW p \in Procs, Acts(p), NEW k \in SegKeys
  PROVE  /\ DOMAIN hdr' = SegKeys
         /\ \/ hdr'[k] = <<>> /\ seg[k].att \subseteq {p} /\ seg'[k] = NoSegment
            \/ hdr'[k] = hdr[k] /\ (seg[k].size # 0 => seg'[k].size # 0)
            \/ /\ Check(p) /\ IsFirst(LocalKey) /\ seg' = seg
               /\ hdr'[k] = LaidOut(conf[p])[k]
<1>1. seg \in [SegKeys -> [size : Nat, att : SUBSET Procs]]
  BY DEF Shape, Typed
<1>2. CASE Start(p)
  <2>1. hdr' = hdr /\ AttachTo(p, DefKey, 1)
    BY <1>2 DEF Start
  <2> QED  BY <1>1, <2>1 DEF AttachTo
<1>3. CASE Attach(p)
  <2> DEFINE j == DefKey + Len(got[p])
  <2>1. hdr' = hdr /\ (UNCHANGED seg \/ AttachTo(p, j, SizeOf(j)))
    BY <1>3 DEF Attach
  <2> HIDE DEF j
  <2>2. CASE UNCHANGED seg
    BY <2>1, <2>2
  <2>3. CASE AttachTo(p, j, SizeOf(j))
    <3>1. seg' = [seg EXCEPT ![j] = [size |-> IF seg[j].size = 0 THEN SizeOf(j) ELSE seg[j].size,
                                     att |-> seg[j].att \union {p}]]
      BY <2>3 DEF AttachTo
    <3>2. seg[k].size # 0 => seg'[k].size # 0
      BY <1>1, <3>1
    <3> QED  BY <2>1, <3>2
  <2> QED  BY <2>1, <2>2, <2>3
<1>4. CASE Detach(p)
  <2> DEFINE i == NextDetached(p)
             j == got[p][i]
  <2>1. /\ seg' = [seg EXCEPT ![j] = IF IsLast(p, j) THEN NoSegment
                                     ELSE [seg[j] EXCEPT !.att = Remaining(p, j)]]
        /\ hdr' = [hdr EXCEPT ![j] = IF IsLast(p, j) THEN <<>> ELSE hdr[j]]
    BY <1>4 DEF Detach
  <2> HIDE DEF i, j
  <2>2. CASE j = k /\ IsLast(p, k)
    <3>1. hdr'[k] = <<>> /\ DOMAIN hdr' = SegKeys /\ seg'[k] = NoSegment
      BY <1>1, <2>1, <2>2
    <3> QED  BY <2>2, <3>1 DEF IsLast, Remaining
  <2>3. CASE j = k /\ ~IsLast(p, k)
    <3>1. hdr'[k] = hdr[k] /\ seg'[k] = [seg[k] EXCEPT !.att = Remaining(p, k)]
          /\ DOMAIN hdr' = SegKeys
      BY <1>1, <2>1, <2>3
    <3> QED  BY <1>1, <3>1
  <2>4. CASE j # k
    BY <1>1, <2>1, <2>4
  <2> QED  BY <2>2, <2>3, <2>4
<1>5. CASE Crash(p)
  BY <1>1, <1>5 DEF Crash
<1>6. CASE Load(p) \/ Leave(p)
  BY <1>6 DEF Load, Leave
<1>7. CASE Check(p)
  <2>1. seg' = seg /\ (UNCHANGED hdr \/ (IsFirst(LocalKey) /\ hdr' = LaidOut(conf[p])))
    BY <1>7 DEF Check
  <2> QED  BY <1>7, <2>1 DEF LaidOut
<1> QED  BY <1>2, <1>3, <1>4, <1>5, <1>6, <1>7 DEF Acts

LEMMA HdrSeg ==
  ASSUME Serial, Shape, OneBusy, ConfInv, HdrInv, SegStep, Shape'
  PROVE  HdrInv'
<1>1. PICK p \in Procs : Acts(p)
  BY OneActs
<1>2. Calm(p) /\ pc \in [Procs -> States] /\ Typed
  BY <1>1, ActsInCalm DEF Shape, Typed
<1>3. Conf' = Conf /\ Areas' = Areas /\ \A k : RecsAt(k)' = RecsAt(k)
  <2>1. [RtNext]_vars
    BY DEF RtNext
  <2> QED  BY <2>1, ConfStays, RecsStay
<1>4. DOMAIN hdr = SegKeys /\ DOMAIN hdr' = SegKeys
  BY <1>1, HdrGoes, KeyFacts DEF HdrInv
\* who checks, and is the first, is alone
<1>5. ASSUME Check(p), IsFirst(LocalKey)
      PROVE  /\ Configured /\ conf[p] = Conf /\ \A q \in Procs \ {p} : pc[q] # "ready"
             /\ \A k \in Areas : seg[k].size # 0
  <2>1. pc[p] = "check" /\ Up(p)
    BY <1>5 DEF Check, Up
  <2>2. Configured
    BY <2>1 DEF ConfInv
  <2>3. LocalKey \in 0 .. LocalKey /\ LocalKey \in SegKeys
    BY <1>2, LocalKeyFacts
  <2>4. p \in seg[LocalKey].att
    BY <2>1, <2>3, ReadyHolds
  <2>5. ASSUME NEW q \in Procs \ {p}, pc[q] = "ready" PROVE FALSE
    <3>1. q \in seg[LocalKey].att
      BY <2>3, <2>5, ReadyHolds
    <3> QED  BY <1>5, <2>3, <2>4, <3>1, FirstIsAlone
  <2>6. conf[p] = Conf
    BY <2>1, <2>5 DEF ConfInv
  <2>7. ASSUME NEW k \in Areas PROVE seg[k].size # 0
    <3>1. k \in 0 .. LocalKey
      BY <1>2, <2>2, LocalKeyFacts DEF Areas, Configured
    <3>2. k \in SegKeys /\ p \in seg[k].att
      BY <2>1, <3>1, ReadyHolds
    <3>3. SegmentShape(k) /\ seg[k].size \in Nat
      BY <3>2 DEF Shape, Typed
    <3>4. seg[k].size > 0
      BY <3>2, <3>3 DEF SegmentShape
    <3> QED  BY <3>3, <3>4
  <2> QED  BY <2>2, <2>5, <2>6, <2>7
<1>6. ASSUME NEW k \in SegKeys
      PROVE  hdr'[k] = <<>> \/ (k \in Areas /\ seg'[k].size # 0 /\ IsLayout(hdr'[k], RecsAt(k)))
  <2>1. hdr[k] = <<>> \/ (k \in Areas /\ seg[k].size # 0 /\ IsLayout(hdr[k], RecsAt(k)))
    BY DEF HdrInv
  <2>2. CASE hdr'[k] = <<>>
    BY <2>2
  <2>3. CASE hdr'[k] = hdr[k] /\ (seg[k].size # 0 => seg'[k].size # 0)
    BY <2>1, <2>3
  <2>4. CASE Check(p) /\ IsFirst(LocalKey) /\ seg' = seg /\ hdr'[k] = LaidOut(conf[p])[k]
    BY <1>2, <1>5, <2>1, <2>4, LaidOutAre
  <2> QED  BY <1>1, <1>4, <2>2, <2>3, <2>4, HdrGoes
<1>7. ASSUME NEW q \in Procs \ {p}, pc[q] = "ready"
      PROVE  def'.lut = Lookup(Conf) /\ \A k \in Areas : IsLayout(hdr'[k], RecsAt(k))
  <2>1. def.lut = Lookup(Conf) /\ \A k \in Areas : IsLayout(hdr[k], RecsAt(k))
    BY <1>7 DEF HdrInv
  <2>2. ~(Check(p) /\ IsFirst(LocalKey))
    BY <1>5, <1>7
  <2>3. def' = def
    BY <1>1, <1>2, <1>7, <2>2, DefStays
  <2>4. Configured
    BY <1>7 DEF ConfInv, Up
  <2>5. ASSUME NEW k \in Areas PROVE hdr'[k] = hdr[k]
    <3>1. k \in 0 .. LocalKey
      BY <1>2, <2>4, LocalKeyFacts DEF Areas, Configured
    <3>2. k \in SegKeys /\ q \in seg[k].att
      BY <1>7, <3>1, ReadyHolds
    <3> QED  BY <1>1, <1>4, <1>7, <2>2, <3>2, HdrGoes
  <2> QED  BY <2>1, <2>3, <2>5
<1>8. ASSUME NEW q \in Procs, pc'[q] = "ready"
      PROVE  def'.lut = Lookup(Conf) /\ \A k \in Areas : IsLayout(hdr'[k], RecsAt(k))
  <2>1. CASE q # p
    BY <1>2, <1>7, <1>8, <2>1 DEF Calm
  <2>2. CASE q = p
    <3>1. Check(p)
      BY <1>1, <1>2, <1>8, <2>2 DEF Acts, Start, Load, Attach, Check, Leave, Detach, Crash
    <3>2. CASE IsFirst(LocalKey)
      <4>1. hdr' = LaidOut(Conf) /\ Configured
        BY <1>5, <3>1, <3>2 DEF Check
      <4>2. def'.lut = Lookup(Conf)
        <5>1. def' = [def EXCEPT !.lut = Lookup(Conf)]
          BY <1>5, <3>1, <3>2 DEF Check
        <5> QED  BY <1>2, <5>1 DEF Typed, Tables
      <4> QED  BY <1>2, <4>1, <4>2, LaidOutAre
    <3>3. CASE ~IsFirst(LocalKey)
      <4>1. LocalKey \in SegKeys /\ LocalKey \in 0 .. LocalKey
        BY <1>2, LocalKeyFacts
      <4>2. p \in seg[LocalKey].att
        BY <3>1, <4>1, ReadyHolds DEF Check
      <4> QED  BY <1>2, <1>7, <3>3, <4>1, <4>2, Company
    <3> QED  BY <3>2, <3>3
  <2> QED  BY <2>1, <2>2
<1> QED  BY <1>3, <1>4, <1>6, <1>8 DEF HdrInv

\* Turning the bank to read keeps a layout one.
LEMMA TurnedLayout ==
  ASSUME NEW h, NEW recs, IsLayout(h, recs), NEW j \in DOMAIN h, NEW b \in {0, 1},
         NEW g, g = [h EXCEPT ![j].rb = b]
  PROVE  /\ IsLayout(g, recs) /\ DOMAIN g = DOMAIN h /\ g[j].rb = b
         /\ \A i \in DOMAIN h : g[i].size = h[i].size /\ g[i].offset = h[i].offset
                                /\ (i # j => g[i] = h[i])
<1>1. DOMAIN g = DOMAIN h /\ \A i \in DOMAIN h : i # j => g[i] = h[i]
  OBVIOUS
<1>2. h[j] \in [id : Ids, size : Nat, offset : Nat, rb : {0, 1}]
  BY DEF IsLayout
<1>3. g[j] = [h[j] EXCEPT !.rb = b]
  OBVIOUS
<1>4. /\ g[j] \in [id : Ids, size : Nat, offset : Nat, rb : {0, 1}] /\ g[j].rb = b
      /\ g[j].id = h[j].id /\ g[j].size = h[j].size /\ g[j].offset = h[j].offset
  BY <1>2, <1>3
<1>5. IsLayout(g, recs)
  BY <1>1, <1>4 DEF IsLayout
<1>6. \A i \in DOMAIN h : g[i].size = h[i].size /\ g[i].offset = h[i].offset
  BY <1>1, <1>4
<1> QED  BY <1>1, <1>4, <1>5, <1>6

\* What an operation under way sees of its record.
LEMMA OpSees ==
  ASSUME Typed, ConfInv, HdrInv, NEW p \in Procs, OpsAt(p)
  PROVE  /\ op[p].k \in SegKeys /\ op[p].k \in Areas /\ op[p].j \in Places
         /\ IsLayout(hdr[op[p].k], RecsAt(op[p].k)) /\ RecsAt(op[p].k) \in Seq(RecConf)
         /\ op[p].j \in DOMAIN hdr[op[p].k] /\ op[p].j \in 1 .. Len(RecsAt(op[p].k))
         /\ Configured /\ def.lut = Lookup(Conf)
<1>1. /\ op[p].k \in Areas /\ op[p].j \in 1 .. Len(RecsAt(op[p].k)) /\ pc[p] = "ready"
  BY DEF OpsAt
<1>2. /\ IsLayout(hdr[op[p].k], RecsAt(op[p].k)) /\ Configured /\ def.lut = Lookup(Conf)
  BY <1>1 DEF HdrInv, ConfInv, Up
<1>3. /\ op[p].k \in SegKeys /\ RecsAt(op[p].k) \in Seq(RecConf)
      /\ Len(RecsAt(op[p].k)) \in 0 .. MaxRecs
  BY <1>1, ConfFacts
<1>4. op[p].j \in Places
  BY <1>1, <1>3, SegmentsConstants DEF Places
<1> QED  BY <1>1, <1>2, <1>3, <1>4 DEF IsLayout

LEMMA OpsSeg ==
  ASSUME Serial, Shape, OneBusy, ConfInv, HdrInv, OpsInv, SegStep
  PROVE  OpsInv'
<1>1. PICK p \in Procs : Acts(p)
  BY OneActs
<1>2. Calm(p) /\ pc \in [Procs -> States] /\ Typed
  BY <1>1, ActsInCalm DEF Shape, Typed
<1>3. Conf' = Conf /\ Areas' = Areas /\ \A k : RecsAt(k)' = RecsAt(k)
  <2>1. [RtNext]_vars
    BY DEF RtNext
  <2> QED  BY <2>1, ConfStays, RecsStay
<1>4. /\ op' = [q \in Procs |-> IF pc'[q] = "ready" THEN op[q] ELSE Idle]
      /\ begun' = [k \in SegKeys |-> IF seg'[k].size = 0 THEN Nothing ELSE begun[k]]
  BY DEF SegStep
<1>5. ASSUME NEW q \in Procs PROVE OpInv(q)'
  <2>1. CASE op'[q] = Idle
    BY <2>1 DEF OpInv
  <2>2. CASE op'[q] # Idle
    <3>1. op'[q] = op[q] /\ pc'[q] = "ready" /\ op[q] # Idle /\ OpInv(q)
      BY <1>4, <2>2 DEF OpsInv
    <3>2. OpsAt(q) /\ pc[q] = "ready"
      BY <3>1 DEF OpInv, OpsAt
    <3>3. q # p
      <4>1. pc[p] = "ready" => pc'[p] # "ready"
        BY <1>1, <1>2 DEF Acts, Start, Load, Attach, Check, Leave, Detach, Crash
      <4> QED  BY <3>1, <3>2, <4>1
    <3> DEFINE k == op[q].k
    <3>4. k \in Areas /\ Configured
      BY <3>2 DEF OpsAt, ConfInv, Up
    <3>5. k \in 0 .. LocalKey
      BY <1>2, <3>4, LocalKeyFacts DEF Areas, Configured
    <3>6. k \in SegKeys /\ q \in seg[k].att
      BY <3>2, <3>5, ReadyHolds
    <3>7. seg'[k].size = seg[k].size
      BY <1>1, <3>3, <3>6, SizeStays
    <3>8. seg[k].size # 0
      <4>1. SegmentShape(k) /\ seg[k].size \in Nat
        BY <3>6 DEF Shape, Typed
      <4>2. seg[k].size > 0
        BY <3>6, <4>1 DEF SegmentShape
      <4> QED  BY <4>1, <4>2
    <3>9. begun'[k] = begun[k]
      BY <1>4, <3>6, <3>7, <3>8
    <3>10. OpsAt(q)' /\ (Owner(q, op[q].k, op[q].j) => Owner(q, op[q].k, op[q].j)')
      BY <1>3, <3>1, <3>2 DEF OpsAt, Owner
    <3> QED  BY <3>1, <3>9, <3>10 DEF OpInv
  <2> QED  BY <2>1, <2>2
<1> QED  BY <1>4, <1>5 DEF OpsInv

LEMMA CountSeg ==
  ASSUME CountInv, MemInv, SegStep
  PROVE  CountInv' /\ MemInv'
<1>1. /\ mem' = [k \in SegKeys |-> IF seg'[k].size = 0 THEN <<>> ELSE mem[k]]
      /\ begun' = [k \in SegKeys |-> IF seg'[k].size = 0 THEN Nothing ELSE begun[k]]
      /\ newest' = [k \in SegKeys |-> IF seg'[k].size = 0 THEN Nothing ELSE newest[k]]
  BY DEF SegStep
<1>2. Nothing \in [Places -> 0 .. MaxPuts] /\ Nothing \in [Places -> Nat]
      /\ \A j \in Places : Nothing[j] = 0
  <2>1. MaxPuts \in Nat
    BY RtDB1Constants
  <2>2. 0 \in 0 .. MaxPuts
    BY <2>1
  <2> QED  BY <2>2 DEF Nothing
<1>3. begun' \in [SegKeys -> [Places -> 0 .. MaxPuts]] /\ newest' \in [SegKeys -> [Places -> Nat]]
  BY <1>1, <1>2 DEF CountInv
<1>4. ASSUME NEW k \in SegKeys, NEW j \in Places PROVE newest'[k][j] <= begun'[k][j]
  BY <1>1, <1>2 DEF CountInv
<1>5. MemInv'
  <2>1. DOMAIN <<>> = {}
    OBVIOUS
  <2> QED  BY <1>1, <2>1 DEF MemInv
<1> QED  BY <1>3, <1>4, <1>5 DEF CountInv

LEMMA OpStays ==
  ASSUME Typed, ConfInv, HdrInv, CountInv, NEW q \in Procs, OpInv(q),
         op'[q] = op[q], pc'[q] = pc[q], file' = file,
         \A k \in SegKeys : \A j \in Places : begun'[k][j] \in Nat /\ begun[k][j] <= begun'[k][j]
  PROVE  OpInv(q)'
<1>1. Conf' = Conf /\ Areas' = Areas /\ \A k : RecsAt(k)' = RecsAt(k)
  BY DEF Conf, Areas, RecsAt, OwnRecs
<1>2. CASE op[q] = Idle
  BY <1>2 DEF OpInv
<1>3. CASE op[q] # Idle
  <2> DEFINE k == op[q].k
             j == op[q].j
  <2>1. OpsAt(q)
    BY <1>3 DEF OpInv
  <2>2. k \in SegKeys /\ j \in Places
    BY <2>1, OpSees
  <2>3. OpsAt(q)' /\ (Owner(q, k, j) => Owner(q, k, j)')
    BY <1>1, <2>1 DEF OpsAt, Owner
  <2>4. begun[k][j] \in Nat /\ begun'[k][j] \in Nat /\ begun[k][j] <= begun'[k][j]
    BY <2>2 DEF CountInv
  <2>5. op[q].put \in 1 .. begun[k][j] => op[q].put \in 1 .. begun'[k][j]
    BY <2>4
  <2> QED  BY <1>3, <2>3, <2>5 DEF OpInv
<1> QED  BY <1>2, <1>3

LEMMA PutInStep ==
  ASSUME Typed, ConfInv, RtInv, NEW p \in Procs, NEW a \in Agents, NEW i \in Ids,
         <<p, a, i>> \in Puts, PutIn(p, a, i)
  PROVE  RtInv'
<1>0. PICK k, j : k = KeyOf(a, i) /\ j = PlaceIn(a, i)
  OBVIOUS
<1> DEFINE new == [kind |-> "put", k |-> k, j |-> j, at |-> 0,
                   bank |-> WriteBank(hdr[k][j]), put |-> begun[k][j] + 1]
<1>1. /\ pc[p] = "ready" /\ Found(a, i) /\ begun[k][j] < MaxPuts
      /\ begun' = [begun EXCEPT ![k][j] = @ + 1] /\ op' = [op EXCEPT ![p] = new]
      /\ UNCHANGED <<segVars, mem, newest>>
  BY <1>0 DEF PutIn
<1>2. /\ HdrInv /\ OpsInv /\ CountInv /\ MemInv
  BY DEF RtInv
<1>3. Configured /\ def.lut = Lookup(Conf) /\ \A n \in Areas : IsLayout(hdr[n], RecsAt(n))
  BY <1>1, <1>2 DEF ConfInv, HdrInv, Up
<1>4. /\ k \in Areas /\ j \in 1 .. Len(RecsAt(k)) /\ RecsAt(k)[j].id = i
      /\ a = IF k = Len(Conf) + 1 THEN Self ELSE k - 1
  BY <1>0, <1>1, <1>3, FoundAt
<1>5. k \in SegKeys /\ j \in Places /\ k \in Nat /\ j \in Nat
  <2>1. k \in SegKeys /\ Len(RecsAt(k)) \in 0 .. MaxRecs /\ MaxRecs \in Nat
    BY <1>4, ConfFacts, SegmentsConstants
  <2> QED  BY <1>4, <2>1, KeyFacts DEF Places
<1>6. begun[k][j] \in 0 .. MaxPuts /\ begun \in [SegKeys -> [Places -> 0 .. MaxPuts]]
      /\ MaxPuts \in Nat
  BY <1>2, <1>5, RtDB1Constants DEF CountInv
<1>7. begun[k][j] + 1 \in 1 .. MaxPuts /\ begun[k][j] + 1 \in 0 .. MaxPuts
  BY <1>1, <1>6
<1>8. /\ begun' \in [SegKeys -> [Places -> 0 .. MaxPuts]]
      /\ begun'[k][j] = begun[k][j] + 1
      /\ \A m \in SegKeys : \A n \in Places : begun'[m][n] = begun[m][n] \/ (m = k /\ n = j)
  BY <1>1, <1>5, <1>6, <1>7
<1>9. \A m \in SegKeys : \A n \in Places : begun'[m][n] \in Nat /\ begun[m][n] <= begun'[m][n]
  <2> SUFFICES ASSUME NEW m \in SegKeys, NEW n \in Places
               PROVE  begun'[m][n] \in Nat /\ begun[m][n] <= begun'[m][n]
    OBVIOUS
  <2>1. begun'[m][n] \in 0 .. MaxPuts /\ begun[m][n] \in 0 .. MaxPuts
    BY <1>6, <1>8
  <2> QED  BY <1>6, <1>8, <2>1
<1>10. UNCHANGED <<file, seg, def, hdr, pc>> /\ UNCHANGED <<mem, newest>>
  BY <1>1 DEF segVars
<1>11. HdrInv'
  BY <1>2, <1>10 DEF HdrInv, Conf, Areas, RecsAt, OwnRecs
<1>12. CountInv'
  <2>1. ASSUME NEW m \in SegKeys, NEW n \in Places PROVE newest'[m][n] <= begun'[m][n]
    <3>1. newest[m][n] \in Nat /\ newest[m][n] <= begun[m][n] /\ begun[m][n] \in Nat
      BY <1>2 DEF CountInv
    <3>2. begun'[m][n] \in Nat /\ begun[m][n] <= begun'[m][n]
      BY <1>9
    <3> QED  BY <1>10, <3>1, <3>2
  <2> QED  BY <1>2, <1>8, <1>10, <2>1 DEF CountInv
<1>13. MemInv'
  BY <1>2, <1>10 DEF MemInv
<1>14. OpInv(p)'
  <2>1. IsLayout(hdr[k], RecsAt(k)) /\ j \in DOMAIN hdr[k]
    BY <1>3, <1>4 DEF IsLayout
  <2>2. hdr[k][j].rb \in {0, 1}
    BY <2>1 DEF IsLayout
  <2>3. WriteBank(hdr[k][j]) \in {0, 1}
    BY <2>2 DEF WriteBank
  <2>4. new \in PutOps
    BY <1>5, <1>7, <2>3 DEF PutOps
  <2>5. op'[p] = new
    BY <1>1, <1>2 DEF OpsInv
  <2>6. new.k = k /\ new.j = j /\ new.put = begun[k][j] + 1
    OBVIOUS
  <2>7. Conf' = Conf /\ Areas' = Areas /\ \A n : RecsAt(n)' = RecsAt(n)
    BY <1>10 DEF Conf, Areas, RecsAt, OwnRecs
  <2> HIDE DEF new
  <2>8. OpsAt(p)'
    BY <1>1, <1>4, <1>10, <2>5, <2>6, <2>7 DEF OpsAt
  <2>9. Owner(p, k, j)'
    BY <1>4, <2>7 DEF Owner
  <2>10. new.put \in 1 .. begun'[k][j]
    BY <1>6, <1>8, <2>6
  <2> QED  BY <2>4, <2>5, <2>6, <2>8, <2>9, <2>10 DEF OpInv
<1>15. \A q \in Procs \ {p} : op'[q] = op[q] /\ OpInv(q)
  BY <1>1, <1>2 DEF OpsInv
<1>16. \A q \in Procs \ {p} : OpInv(q)'
  BY <1>2, <1>9, <1>10, <1>15, OpStays
<1>17. DOMAIN op' = Procs
  BY <1>1, <1>2 DEF OpsInv
<1> QED  BY <1>11, <1>12, <1>13, <1>14, <1>16, <1>17 DEF RtInv, OpsInv

\* The cell an operation writes or reads next is an address.
LEMMA CellTyped ==
  ASSUME Typed, ConfInv, HdrInv, NEW p \in Procs, OpsAt(p), NEW b \in {0, 1}
  PROVE  LET h == hdr[op[p].k][op[p].j]
             c == Cells(h, op[p].j, b)
         IN  /\ Len(c) = h.size + 2 /\ h.size \in Nat
             /\ \A w \in 1 .. h.size + 2 : c[w] \in Nat
<1>1. PICK k, j : k = op[p].k /\ j = op[p].j
  OBVIOUS
<1>2. PICK h, recs : h = hdr[k] /\ recs = RecsAt(k)
  OBVIOUS
<1>3. IsLayout(h, recs) /\ recs \in Seq(RecConf) /\ j \in DOMAIN h
  BY <1>1, <1>2, OpSees
<1>4. LET c == Cells(h[j], j, b)
      IN  Len(c) = h[j].size + 2 /\ h[j].size \in Nat /\ \A w \in 1 .. h[j].size + 2 : c[w] \in Nat
  BY ONLY b \in {0, 1}, <1>3, SMTT(30), CellsAre
<1> QED  BY ONLY <1>1, <1>2, <1>4, SMTT(30)

LEMMA PutCellStep ==
  ASSUME Typed, ConfInv, RtInv, NEW p \in Procs, PutCell(p)
  PROVE  RtInv'
<1> DEFINE o == op[p]
           cells == Cells(hdr[o.k][o.j], o.j, o.bank)
<1>1. /\ o.kind = "put" /\ o.at < Len(cells) /\ Write(o.k, cells[o.at + 1], o.put)
      /\ op' = [op EXCEPT ![p].at = @ + 1] /\ UNCHANGED <<segVars, begun, newest>>
  BY DEF PutCell
<1>2. HdrInv /\ OpsInv /\ CountInv /\ MemInv
  BY DEF RtInv
<1>3. /\ o \in PutOps /\ OpsAt(p) /\ Owner(p, o.k, o.j) /\ o.put \in 1 .. begun[o.k][o.j]
  <2>1. OpInv(p)
    BY <1>2 DEF OpsInv
  <2> QED  BY <1>1, <2>1, SMTT(30) DEF OpInv, Idle, GetOps
<1>4. o.k \in SegKeys /\ o.j \in Places /\ o.at \in Nat /\ o.bank \in {0, 1}
  BY <1>2, <1>3, OpSees DEF PutOps
<1>5. cells[o.at + 1] \in Nat
  <2>1. o.at + 1 \in 1 .. Len(cells) /\ Len(cells) = hdr[o.k][o.j].size + 2
    <3>1. Len(cells) = hdr[o.k][o.j].size + 2 /\ hdr[o.k][o.j].size \in Nat
      BY <1>2, <1>3, <1>4, CellTyped
    <3> DEFINE N == Len(cells)
    <3> HIDE DEF N
    <3>2. o.at < N /\ N = hdr[o.k][o.j].size + 2
      BY <1>1, <3>1 DEF N
    <3>3. N \in Nat
      BY <3>1, <3>2
    <3>4. o.at + 1 \in 1 .. N
      BY <1>4, <3>2, <3>3
    <3> QED  BY <3>1, <3>4 DEF N
  <2> QED  BY <1>2, <1>3, <1>4, <2>1, CellTyped
<1>6. o.put \in 1 .. MaxPuts
  <2>1. begun[o.k][o.j] \in 0 .. MaxPuts /\ MaxPuts \in Nat
    BY <1>2, <1>4, RtDB1Constants DEF CountInv
  <2> QED  BY <1>3, <2>1
<1> HIDE DEF cells
<1>7. UNCHANGED <<file, seg, def, hdr, pc>> /\ UNCHANGED <<begun, newest>>
  BY <1>1 DEF segVars
<1>8. HdrInv' /\ CountInv'
  BY <1>2, <1>7 DEF HdrInv, CountInv, Conf, Areas, RecsAt, OwnRecs
<1>9. MemInv'
  <2> DEFINE k == o.k
             a == cells[o.at + 1]
             new == [x \in DOMAIN mem[k] \union {a} |-> IF x = a THEN o.put ELSE mem[k][x]]
  <2>1. mem' = [mem EXCEPT ![k] = new]
    BY <1>1 DEF Write
  <2>2. DOMAIN new \subseteq Nat /\ \A x \in DOMAIN new : new[x] \in 1 .. MaxPuts
    BY <1>2, <1>4, <1>5, <1>6 DEF MemInv
  <2>3. seg[k].size # 0
    <3>1. k \in Areas /\ IsLayout(hdr[k], RecsAt(k)) /\ o.j \in DOMAIN hdr[k] /\ k \in SegKeys
      BY <1>2, <1>3, OpSees
    <3>2. hdr[k] # <<>>
      BY <3>1
    <3> QED  BY <1>2, <3>1, <3>2 DEF HdrInv
  <2> HIDE DEF k, a, new
  <2>4. mem'[k] = new /\ DOMAIN mem' = SegKeys /\ \A n \in SegKeys \ {k} : mem'[n] = mem[n]
    BY <1>2, <1>4, <2>1 DEF MemInv, k
  <2> QED  BY <1>2, <1>7, <2>2, <2>3, <2>4 DEF MemInv
<1>10. OpInv(p)'
  <2>1. op'[p] = [o EXCEPT !.at = o.at + 1]
    BY <1>1, <1>2 DEF OpsInv
  <2>2. /\ op'[p] \in PutOps /\ op'[p].k = o.k /\ op'[p].j = o.j /\ op'[p].put = o.put
    BY <1>3, <1>4, <2>1 DEF PutOps
  <2>3. Conf' = Conf /\ Areas' = Areas /\ \A n : RecsAt(n)' = RecsAt(n)
    BY <1>7 DEF Conf, Areas, RecsAt, OwnRecs
  <2>4. OpsAt(p)'
    BY <1>3, <1>7, <2>2, <2>3 DEF OpsAt
  <2>5. Owner(p, op[p].k, op[p].j)'
    BY <1>3, <2>2, <2>3 DEF Owner
  <2> QED  BY <1>3, <1>7, <2>2, <2>4, <2>5 DEF OpInv
<1>11. \A q \in Procs \ {p} : op'[q] = op[q] /\ OpInv(q)
  BY <1>1, <1>2 DEF OpsInv
<1>12. \A k \in SegKeys : \A j \in Places : begun'[k][j] \in Nat /\ begun[k][j] <= begun'[k][j]
  <2>1. \A k \in SegKeys : \A j \in Places : begun[k][j] \in Nat
    BY <1>2 DEF CountInv
  <2> QED  BY <1>7, <2>1
<1>13. \A q \in Procs \ {p} : OpInv(q)'
  BY <1>2, <1>7, <1>11, <1>12, OpStays
<1>14. DOMAIN op' = Procs
  BY <1>1, <1>2 DEF OpsInv
<1> QED  BY <1>8, <1>9, <1>10, <1>13, <1>14 DEF RtInv, OpsInv

LEMMA PutEndStep ==
  ASSUME Typed, ConfInv, RtInv, NEW p \in Procs, PutEnd(p)
  PROVE  RtInv'
<1>0. PICK k, j, b, n : k = op[p].k /\ j = op[p].j /\ b = op[p].bank /\ n = op[p].put
  OBVIOUS
<1>1. /\ op[p].kind = "put"
      /\ hdr' = [hdr EXCEPT ![k][j].rb = b] /\ newest' = [newest EXCEPT ![k][j] = n]
      /\ op' = [op EXCEPT ![p] = Idle]
      /\ UNCHANGED <<file, seg, def, pc, mem, begun>>
  BY <1>0 DEF PutEnd
<1>2. HdrInv /\ OpsInv /\ CountInv /\ MemInv
  BY DEF RtInv
<1>3. op[p] \in PutOps /\ OpsAt(p) /\ n \in 1 .. begun[k][j]
  <2>1. OpInv(p)
    BY <1>2 DEF OpsInv
  <2> QED  BY <1>0, <1>1, <2>1 DEF OpInv, Idle, GetOps
<1>4. /\ k \in SegKeys /\ k \in Areas /\ j \in Places /\ b \in {0, 1}
      /\ IsLayout(hdr[k], RecsAt(k)) /\ j \in DOMAIN hdr[k]
  BY <1>0, <1>2, <1>3, OpSees DEF PutOps
<1>5. Conf' = Conf /\ Areas' = Areas /\ \A m : RecsAt(m)' = RecsAt(m)
  BY <1>1 DEF Conf, Areas, RecsAt, OwnRecs
<1>6. /\ hdr'[k] = [hdr[k] EXCEPT ![j].rb = b] /\ DOMAIN hdr' = SegKeys
      /\ \A m \in SegKeys \ {k} : hdr'[m] = hdr[m]
  BY <1>1, <1>2, <1>4 DEF HdrInv
<1>7. IsLayout(hdr'[k], RecsAt(k))
  <2> DEFINE g == hdr[k]
             recs == RecsAt(k)
  <2> HIDE DEF g, recs
  <2>1. IsLayout(g, recs) /\ j \in DOMAIN g /\ b \in {0, 1}
    BY <1>4 DEF g, recs
  <2>2. IsLayout([g EXCEPT ![j].rb = b], recs)
    BY ONLY <2>1, TurnedLayout
  <2> QED  BY <1>6, <2>2 DEF g, recs
<1>8. HdrInv'
  <2>1. ASSUME NEW m \in SegKeys
        PROVE  hdr'[m] = <<>> \/ (m \in Areas /\ seg[m].size # 0 /\ IsLayout(hdr'[m], RecsAt(m)))
    <3>1. CASE m = k
      <4>1. hdr[k] # <<>>
        BY <1>4
      <4> QED  BY <1>2, <1>4, <1>7, <3>1, <4>1 DEF HdrInv
    <3>2. CASE m # k
      BY <1>2, <1>6, <3>2 DEF HdrInv
    <3> QED  BY <3>1, <3>2
  <2>2. ASSUME \E q \in Procs : pc[q] = "ready"
        PROVE  def.lut = Lookup(Conf) /\ \A m \in Areas : IsLayout(hdr'[m], RecsAt(m))
    <3>1. def.lut = Lookup(Conf) /\ \A m \in Areas : IsLayout(hdr[m], RecsAt(m))
      BY <1>2, <2>2 DEF HdrInv
    <3>2. \A m \in Areas : m \in SegKeys
      BY ConfFacts
    <3> QED  BY <1>6, <1>7, <3>1, <3>2
  <2> QED  BY <1>1, <1>5, <1>6, <2>1, <2>2 DEF HdrInv
<1>9. CountInv'
  <2>1. n \in Nat /\ n <= begun[k][j]
    <3>1. begun[k][j] \in Nat
      BY <1>2, <1>4 DEF CountInv
    <3> QED  BY <1>3, <3>1
  <2>2. newest \in [SegKeys -> [Places -> Nat]]
    BY <1>2 DEF CountInv
  <2>3. /\ newest' \in [SegKeys -> [Places -> Nat]]
        /\ newest'[k][j] = n
        /\ \A m \in SegKeys : \A i \in Places : newest'[m][i] = newest[m][i] \/ (m = k /\ i = j)
    BY <1>1, <1>4, <2>1, <2>2
  <2>4. ASSUME NEW m \in SegKeys, NEW i \in Places PROVE newest'[m][i] <= begun'[m][i]
    BY <1>1, <1>2, <2>1, <2>3 DEF CountInv
  <2> QED  BY <1>1, <1>2, <2>3, <2>4 DEF CountInv
<1>10. MemInv'
  BY <1>1, <1>2 DEF MemInv
<1>11. OpInv(p)'
  BY <1>1, <1>2 DEF OpInv, OpsInv
<1>12. \A q \in Procs \ {p} : op'[q] = op[q] /\ OpInv(q)
  BY <1>1, <1>2 DEF OpsInv
<1>13. \A m \in SegKeys : \A i \in Places : begun'[m][i] \in Nat /\ begun[m][i] <= begun'[m][i]
  <2>1. \A m \in SegKeys : \A i \in Places : begun[m][i] \in Nat
    BY <1>2 DEF CountInv
  <2> QED  BY <1>1, <2>1
<1>14. \A q \in Procs \ {p} : OpInv(q)'
  BY <1>1, <1>2, <1>12, <1>13, OpStays
<1>15. DOMAIN op' = Procs
  BY <1>1, <1>2 DEF OpsInv
<1> QED  BY <1>8, <1>9, <1>10, <1>11, <1>14, <1>15 DEF RtInv, OpsInv

LEMMA DBGetStep ==
  ASSUME Typed, ConfInv, RtInv, NEW p \in Procs, NEW a \in Agents, NEW i \in Ids, DBGet(p, a, i)
  PROVE  RtInv'
<1>0. PICK k, j : k = KeyOf(a, i) /\ j = PlaceIn(a, i)
  OBVIOUS
<1> DEFINE new == [kind |-> "get", k |-> k, j |-> j, seen |-> <<>>,
                   bank |-> hdr[k][j].rb, first |-> newest[k][j]]
<1>1. /\ pc[p] = "ready" /\ Found(a, i) /\ op' = [op EXCEPT ![p] = new]
      /\ UNCHANGED <<segVars, mem, begun, newest>>
  BY <1>0 DEF DBGet
<1>2. HdrInv /\ OpsInv /\ CountInv /\ MemInv
  BY DEF RtInv
<1>3. Configured /\ def.lut = Lookup(Conf) /\ \A n \in Areas : IsLayout(hdr[n], RecsAt(n))
  BY <1>1, <1>2 DEF ConfInv, HdrInv, Up
<1>4. k \in Areas /\ j \in 1 .. Len(RecsAt(k))
  BY <1>0, <1>1, <1>3, FoundAt
<1>5. k \in SegKeys /\ j \in Places /\ k \in Nat /\ j \in Nat
  <2>1. k \in SegKeys /\ Len(RecsAt(k)) \in 0 .. MaxRecs /\ MaxRecs \in Nat
    BY <1>4, ConfFacts, SegmentsConstants
  <2> QED  BY <1>4, <2>1, KeyFacts DEF Places
<1>6. UNCHANGED <<file, seg, def, hdr, pc>> /\ UNCHANGED <<mem, begun, newest>>
  BY <1>1 DEF segVars
<1>7. HdrInv' /\ CountInv' /\ MemInv'
  BY <1>2, <1>6 DEF HdrInv, CountInv, MemInv, Conf, Areas, RecsAt, OwnRecs
<1>8. OpInv(p)'
  <2>1. IsLayout(hdr[k], RecsAt(k)) /\ j \in DOMAIN hdr[k]
    BY <1>3, <1>4 DEF IsLayout
  <2>2. hdr[k][j].rb \in {0, 1} /\ newest[k][j] \in Nat
    BY <1>2, <1>5, <2>1 DEF IsLayout, CountInv
  <2>3. new \in GetOps /\ new.k = k /\ new.j = j
    BY <1>5, <2>2 DEF GetOps
  <2>4. op'[p] = new
    BY <1>1, <1>2 DEF OpsInv
  <2>5. Conf' = Conf /\ Areas' = Areas /\ \A n : RecsAt(n)' = RecsAt(n)
    BY <1>6 DEF Conf, Areas, RecsAt, OwnRecs
  <2> HIDE DEF new
  <2>6. OpsAt(p)'
    BY <1>1, <1>4, <1>6, <2>3, <2>4, <2>5 DEF OpsAt
  <2> QED  BY <2>3, <2>4, <2>6 DEF OpInv
<1>9. \A q \in Procs \ {p} : op'[q] = op[q] /\ OpInv(q)
  BY <1>1, <1>2 DEF OpsInv
<1>10. \A m \in SegKeys : \A n \in Places : begun'[m][n] \in Nat /\ begun[m][n] <= begun'[m][n]
  <2>1. \A m \in SegKeys : \A n \in Places : begun[m][n] \in Nat
    BY <1>2 DEF CountInv
  <2> QED  BY <1>6, <2>1
<1>11. \A q \in Procs \ {p} : OpInv(q)'
  BY <1>2, <1>6, <1>9, <1>10, OpStays
<1>12. DOMAIN op' = Procs
  BY <1>1, <1>2 DEF OpsInv
<1> QED  BY <1>7, <1>8, <1>11, <1>12 DEF RtInv, OpsInv

\* What a get reads is the number of a put, or 0.
LEMMA ReadTyped ==
  ASSUME MemInv, NEW k \in SegKeys, NEW x
  PROVE  At(k, x) \in Nat
<1>1. x \in DOMAIN mem[k] => mem[k][x] \in Nat
  <2>1. x \in DOMAIN mem[k] => mem[k][x] \in 1 .. MaxPuts
    BY DEF MemInv
  <2> QED  BY <2>1, RtDB1Constants
<1> QED  BY <1>1 DEF At

\* A get's next cell.
LEMMA GetCellIs ==
  ASSUME Typed, ConfInv, RtInv, NEW p \in Procs, GetCell(p)
  PROVE  /\ op[p] \in GetOps /\ OpsAt(p)
         /\ LET o == op[p]
                h == hdr[o.k][o.j]
            IN  \E b \in NextBank(o) :
                  /\ b \in {0, 1} /\ Len(o.seen) < h.size + 2
                  /\ LET x == At(o.k, Cells(h, o.j, b)[Len(o.seen) + 1])
                     IN  /\ x \in Nat
                         /\ op' = [op EXCEPT ![p] =
                              [o EXCEPT !.seen = Append(o.seen, x), !.bank = b]]
                         /\ op'[p] \in GetOps /\ op'[p].k = o.k /\ op'[p].j = o.j
                         /\ op'[p].first = o.first /\ op'[p].bank = b
                         /\ op'[p].seen = Append(o.seen, x)
         /\ UNCHANGED <<segVars, mem, begun, newest>>
<1> DEFINE o == op[p]
           h == hdr[o.k][o.j]
           val(b) == At(o.k, Cells(h, o.j, b)[Len(o.seen) + 1])
<1>1. /\ o.kind = "get" /\ UNCHANGED <<segVars, mem, begun, newest>>
      /\ \E b \in NextBank(o) :
           op' = [op EXCEPT ![p].seen = Append(@, val(b)), ![p].bank = b]
  BY DEF GetCell
<1>2. HdrInv /\ OpsInv /\ CountInv /\ MemInv
  BY DEF RtInv
<1>3. o \in GetOps /\ OpsAt(p)
  <2>1. OpInv(p)
    BY <1>2 DEF OpsInv
  <2> QED  BY <1>1, <2>1 DEF OpInv, Idle, PutOps
<1>4. /\ o.k \in SegKeys /\ IsLayout(hdr[o.k], RecsAt(o.k)) /\ o.j \in DOMAIN hdr[o.k]
  BY <1>2, <1>3, OpSees
<1>5. h.size \in Nat /\ h.rb \in {0, 1} /\ o.bank \in {0, 1} /\ Len(o.seen) \in Nat
      /\ o.seen \in Seq(Nat)
  BY <1>3, <1>4 DEF IsLayout, GetOps
<1>6. PICK b \in NextBank(o) : op' = [op EXCEPT ![p].seen = Append(@, val(b)), ![p].bank = b]
  BY <1>1
<1>7. b \in {0, 1} /\ Len(o.seen) < h.size + 2
  <2> DEFINE n == Len(o.seen)
             s == h.size
  <2>1. n \in Nat /\ s \in Nat
    BY <1>5
  <2>2. NextBank(o) = CASE n < s -> {o.bank} [] n = s -> {h.rb}
                        [] n = s + 1 -> {o.bank, h.rb} [] OTHER -> {}
    BY DEF NextBank
  <2> HIDE DEF n, s, h, o
  <2>3. CASE n < s
    <3>1. NextBank(o) = {o.bank}
      <4>1. ~(n = s) /\ ~(n = s + 1)
        BY <2>1, <2>3
      <4> QED  BY <2>2, <2>3, <4>1
    <3>2. n < s + 2
      BY <2>1, <2>3
    <3> QED  BY <1>5, <1>6, <3>1, <3>2 DEF n, s
  <2>4. CASE n = s
    <3>1. NextBank(o) = {h.rb}
      <4>1. ~(n < s) /\ ~(n = s + 1)
        BY <2>1, <2>4
      <4> QED  BY <2>2, <2>4, <4>1
    <3>2. n < s + 2
      BY <2>1, <2>4
    <3> QED  BY <1>5, <1>6, <3>1, <3>2 DEF n, s
  <2>5. CASE n = s + 1
    <3>1. NextBank(o) = {o.bank, h.rb}
      <4>1. ~(n < s) /\ ~(n = s)
        BY <2>1, <2>5
      <4> QED  BY <2>2, <2>5, <4>1
    <3>2. n < s + 2
      BY <2>1, <2>5
    <3> QED  BY <1>5, <1>6, <3>1, <3>2 DEF n, s
  <2>6. CASE ~(n < s) /\ ~(n = s) /\ ~(n = s + 1)
    BY <1>6, <2>2, <2>6
  <2> QED  BY <2>3, <2>4, <2>5, <2>6
<1>8. val(b) \in Nat
  BY <1>2, <1>4, ReadTyped
<1> HIDE DEF val
<1>9. Append(o.seen, val(b)) \in Seq(Nat)
  BY <1>5, <1>8
<1> DEFINE new == [o EXCEPT !.seen = Append(o.seen, val(b)), !.bank = b]
<1>10. op' = [op EXCEPT ![p] = new]
  <2>1. DOMAIN op = Procs
    BY <1>2 DEF OpsInv
  <2> QED  BY <1>6, <2>1
<1>11. /\ new \in GetOps /\ new.k = o.k /\ new.j = o.j /\ new.first = o.first /\ new.bank = b
       /\ new.seen = Append(o.seen, val(b))
  BY <1>3, <1>7, <1>9 DEF GetOps
<1>12. op'[p] = new
  <2>1. DOMAIN op = Procs
    BY <1>2 DEF OpsInv
  <2> HIDE DEF new
  <2> QED  BY <1>10, <2>1
<1> QED  BY <1>1, <1>3, <1>6, <1>7, <1>8, <1>10, <1>11, <1>12 DEF val

LEMMA GetCellStep ==
  ASSUME Typed, ConfInv, RtInv, NEW p \in Procs, GetCell(p)
  PROVE  RtInv'
<1>1. /\ op[p] \in GetOps /\ OpsAt(p)
      /\ op'[p] \in GetOps /\ op'[p].k = op[p].k /\ op'[p].j = op[p].j
      /\ DOMAIN op' = DOMAIN op /\ \A q \in DOMAIN op \ {p} : op'[q] = op[q]
      /\ UNCHANGED <<segVars, mem, begun, newest>>
  BY GetCellIs
<1>2. HdrInv /\ OpsInv /\ CountInv /\ MemInv
  BY DEF RtInv
<1>3. UNCHANGED <<file, seg, def, hdr, pc>> /\ UNCHANGED <<mem, begun, newest>>
  BY <1>1 DEF segVars
<1>4. HdrInv' /\ CountInv' /\ MemInv'
  BY <1>2, <1>3 DEF HdrInv, CountInv, MemInv, Conf, Areas, RecsAt, OwnRecs
<1>5. OpInv(p)'
  <2>1. Conf' = Conf /\ Areas' = Areas /\ \A n : RecsAt(n)' = RecsAt(n)
    BY <1>3 DEF Conf, Areas, RecsAt, OwnRecs
  <2>2. OpsAt(p)'
    BY <1>1, <1>3, <2>1 DEF OpsAt
  <2> QED  BY <1>1, <2>2 DEF OpInv
<1>6. \A q \in Procs \ {p} : op'[q] = op[q] /\ OpInv(q)
  BY <1>1, <1>2 DEF OpsInv
<1>7. \A m \in SegKeys : \A n \in Places : begun'[m][n] \in Nat /\ begun[m][n] <= begun'[m][n]
  <2>1. \A m \in SegKeys : \A n \in Places : begun[m][n] \in Nat
    BY <1>2 DEF CountInv
  <2> QED  BY <1>3, <2>1
<1>8. \A q \in Procs \ {p} : OpInv(q)'
  BY <1>2, <1>3, <1>6, <1>7, OpStays
<1> QED  BY <1>1, <1>2, <1>4, <1>5, <1>8 DEF RtInv, OpsInv

(***************************************************************************)
(* The invariants together.                                                *)
(***************************************************************************)
SerialInv == Shape /\ OneBusy /\ ConfInv /\ SizeInv /\ RtInv

LEMMA RtInvStep ==
  ASSUME Serial, SerialInv, [RtNext]_vars, Shape'
  PROVE  RtInv'
<1>1. Shape /\ OneBusy /\ ConfInv /\ RtInv /\ Typed /\ HdrInv /\ OpsInv /\ CountInv /\ MemInv
  BY DEF SerialInv, RtInv, Shape
<1>2. CASE SegStep
  BY <1>1, <1>2, HdrSeg, OpsSeg, CountSeg DEF RtInv
<1>3. CASE UNCHANGED vars
  <2>1. UNCHANGED <<file, seg, def, hdr, pc>> /\ UNCHANGED <<mem, op, begun, newest>>
    BY <1>3 DEF vars, segVars
  <2>2. HdrInv' /\ CountInv' /\ MemInv'
    BY <1>1, <2>1 DEF HdrInv, CountInv, MemInv, Conf, Areas, RecsAt, OwnRecs
  <2>3. OpsInv'
    BY ZenonT(30), <1>1, <2>1
       DEF OpsInv, OpInv, OpsAt, Owner, Conf, Areas, RecsAt, OwnRecs
  <2> QED  BY <2>2, <2>3 DEF RtInv
<1>4. CASE \E p \in Procs, a \in Agents, i \in Ids : <<p, a, i>> \in Puts /\ PutIn(p, a, i)
  BY <1>1, <1>4, PutInStep
<1>5. CASE \E p \in Procs, a \in Agents, i \in Ids : DBGet(p, a, i)
  BY <1>1, <1>5, DBGetStep
<1>6. CASE \E p \in Procs : PutCell(p) \/ PutEnd(p) \/ GetCell(p)
  BY <1>1, <1>6, PutCellStep, PutEndStep, GetCellStep
<1> QED  BY <1>2, <1>3, <1>4, <1>5, <1>6, CasesAre

LEMMA SerialHolds ==
  ASSUME Serial
  PROVE  Spec => []SerialInv
<1>1. RtInit /\ Shape => SerialInv
  <2> SUFFICES ASSUME RtInit, Shape PROVE SerialInv
    OBVIOUS
  <2>1. /\ seg = [k \in SegKeys |-> NoSegment] /\ def = NoDef
        /\ hdr = [k \in SegKeys |-> <<>>] /\ pc = [p \in Procs |-> "off"]
        /\ mem = [k \in SegKeys |-> <<>>] /\ op = [p \in Procs |-> Idle]
        /\ begun = [k \in SegKeys |-> Nothing] /\ newest = [k \in SegKeys |-> Nothing]
    BY RtInitIs
  <2>2. OneBusy /\ ConfInv
    BY <2>1 DEF OneBusy, Busy, ConfInv, Up
  <2>3. SizeInv
    BY <2>1 DEF SizeInv, NoSegment, Up
  <2>4. HdrInv /\ MemInv
    <3>1. DOMAIN <<>> = {}
      OBVIOUS
    <3> QED  BY <2>1, <3>1 DEF HdrInv, MemInv
  <2>5. OpsInv
    BY <2>1 DEF OpsInv, OpInv
  <2>6. CountInv
    <3>1. MaxPuts \in Nat
      BY RtDB1Constants
    <3>2. 0 \in 0 .. MaxPuts
      BY <3>1
    <3> QED  BY <2>1, <3>2 DEF CountInv, Nothing
  <2> QED  BY <2>2, <2>3, <2>4, <2>5, <2>6 DEF SerialInv, RtInv
<1>2. SerialInv /\ [RtNext]_vars /\ Shape' => SerialInv'
  BY OneBusyStep, ConfStep, SizeStep, RtInvStep DEF SerialInv
<1> QED  BY <1>1, <1>2, ShapeHolds, PTL DEF Spec

\* Types, of the segments, of the memory and of the operations under way.
THEOREM Types ==
  ASSUME Serial
  PROVE  Spec => []TypeOK
<1>1. SerialInv => TypeOK
  <2> SUFFICES ASSUME SerialInv PROVE TypeOK
    OBVIOUS
  <2>1. Shape /\ Typed /\ ConfInv /\ HdrInv /\ OpsInv /\ CountInv /\ MemInv
    BY DEF SerialInv, Shape, RtInv
  <2>2. SegTypeOK
    <3>1. /\ def.n \in 0 .. MaxAgents /\ def.local \in Nat
          /\ def.recs \in [Agents -> Nat] /\ def.shared \in [Agents -> Nat]
          /\ def.lut \in [Agents -> [Ids -> Int]]
      BY <2>1 DEF Typed, Tables
    <3>2. ASSUME NEW k \in SegKeys, NEW j \in DOMAIN hdr[k]
          PROVE  hdr[k][j] \in [id : Ids, size : Nat, offset : Nat, rb : {0, 1}]
      <4>1. hdr[k] = <<>> \/ IsLayout(hdr[k], RecsAt(k))
        BY <2>1 DEF HdrInv
      <4>2. hdr[k] # <<>>
        BY <3>2
      <4> QED  BY <4>1, <4>2 DEF IsLayout
    <3>3. \A p \in Procs : \A k \in SegKeys : p \in seg[k].att <=> k \in Range(got[p])
      BY <2>1 DEF Shape, GotShape
    <3> QED  BY <2>1, <3>1, <3>2, <3>3 DEF SegTypeOK, Typed
  <2>3. \A k \in SegKeys : \A j \in Places : newest[k][j] \in 0 .. begun[k][j]
    <3> SUFFICES ASSUME NEW k \in SegKeys, NEW j \in Places
                 PROVE  newest[k][j] \in 0 .. begun[k][j]
      OBVIOUS
    <3>1. newest[k][j] \in Nat /\ begun[k][j] \in Nat /\ newest[k][j] <= begun[k][j]
      BY <2>1 DEF CountInv
    <3> QED  BY <3>1
  <2>4. ASSUME NEW p \in Procs
        PROVE  /\ op[p].kind \in {"idle", "put", "get"}
               /\ op[p].kind # "idle" => pc[p] = "ready" /\ op[p].j \in DOMAIN hdr[op[p].k]
    <3>1. op[p] = Idle \/ (op[p] \in PutOps \union GetOps /\ OpsAt(p))
      BY <2>1 DEF OpsInv, OpInv
    <3>2. OpsAt(p) => pc[p] = "ready" /\ op[p].j \in DOMAIN hdr[op[p].k]
      BY <2>1, OpSees DEF OpsAt
    <3> QED  BY <3>1, <3>2 DEF Idle, PutOps, GetOps
  <2> QED  BY <2>1, <2>2, <2>3, <2>4 DEF TypeOK, CountInv, MemInv
<1> QED  BY <1>1, SerialHolds, PTL

\* However many starts failed, processes were killed and definitions were added
\* up: no two records share a byte, none reaches out of its segment
\* (rtdb_api.c:306-308, 364-377).
THEOREM NoOverlap ==
  ASSUME Serial
  PROVE  Spec => []RecordsApart
<1>1. SerialInv => RecordsApart
  <2> SUFFICES ASSUME SerialInv, NEW k \in SegKeys, NEW j \in DOMAIN hdr[k]
               PROVE  /\ BanksOf(hdr[k][j], j) \subseteq 0 .. seg[k].size - 1
                      /\ \A i \in DOMAIN hdr[k] : HeaderOf(i) \cap BanksOf(hdr[k][j], j) = {}
                      /\ \A i \in DOMAIN hdr[k] \ {j} :
                           BanksOf(hdr[k][i], i) \cap BanksOf(hdr[k][j], j) = {}
    BY DEF RecordsApart
  <2>1. Typed /\ SizeInv /\ HdrInv /\ hdr[k] # <<>>
    BY DEF SerialInv, Shape, RtInv
  <2>2. k \in Areas /\ seg[k].size # 0 /\ IsLayout(hdr[k], RecsAt(k))
    BY <2>1 DEF HdrInv
  <2>3. RecsAt(k) \in Seq(RecConf) /\ k \in SegKeys \ {DefKey}
    BY <2>1, <2>2, ConfFacts
  <2>4. AreaSize(0, RecsAt(k)) <= seg[k].size /\ seg[k].size \in Nat
    BY <2>1, <2>2, <2>3 DEF SizeInv, Typed
  <2> QED  BY <2>2, <2>3, <2>4, LayoutApart
<1> QED  BY <1>1, SerialHolds, PTL

\* The headers and the memory are functions on the keys.
PerKey == hdr = [k \in SegKeys |-> hdr[k]] /\ mem = [k \in SegKeys |-> mem[k]]

LEMMA PerKeyHolds == Spec => []PerKey
<1>1. RtInit => PerKey
  BY DEF RtInit, Init, PerKey
<1>2. PerKey /\ [RtNext]_vars => PerKey'
  <2> SUFFICES ASSUME PerKey, [RtNext]_vars PROVE PerKey'
    OBVIOUS
  <2>1. ASSUME SegStep PROVE PerKey'
    <3>1. mem' = [k \in SegKeys |-> mem'[k]]
      BY <2>1 DEF SegStep
    <3>2. PICK p \in Procs : Acts(p)
      BY <2>1, OneActs
    <3>3. CASE Start(p) \/ Load(p) \/ Attach(p) \/ Leave(p) \/ Crash(p)
      BY <3>1, <3>3 DEF PerKey, Start, Load, Attach, Leave, Crash
    <3>4. CASE Check(p)
      <4>1. hdr' = hdr \/ hdr' = LaidOut(conf[p])
        BY <3>4 DEF Check
      <4> QED  BY <3>1, <4>1 DEF PerKey, LaidOut
    <3>5. CASE Detach(p)
      <4>1. \E k, h : hdr' = [hdr EXCEPT ![k] = h]
        BY <3>5 DEF Detach
      <4> QED  BY <3>1, <4>1 DEF PerKey
    <3> QED  BY <3>2, <3>3, <3>4, <3>5 DEF Acts
  <2>2. ASSUME NEW p, NEW a, NEW i, PutIn(p, a, i) \/ DBGet(p, a, i) PROVE PerKey'
    BY <2>2 DEF PutIn, DBGet, PerKey, segVars
  <2>3. ASSUME NEW p, PutCell(p) PROVE PerKey'
    <3>1. hdr' = hdr /\ \E k, m : mem' = [mem EXCEPT ![k] = m]
      BY <2>3 DEF PutCell, Write, segVars
    <3> QED  BY <3>1 DEF PerKey
  <2>4. ASSUME NEW p, PutEnd(p) PROVE PerKey'
    <3>1. mem' = mem /\ \E k, h : hdr' = [hdr EXCEPT ![k] = h]
      BY <2>4 DEF PutEnd
    <3> QED  BY <3>1 DEF PerKey
  <2>5. ASSUME NEW p, GetCell(p) PROVE PerKey'
    BY <2>5 DEF GetCell, PerKey, segVars
  <2>6. CASE UNCHANGED vars
    BY <2>6 DEF vars, segVars, PerKey
  <2> QED  BY <2>1, <2>2, <2>3, <2>4, <2>5, <2>6, CasesAre
<1> QED  BY <1>1, <1>2, PTL DEF Spec

\* Who comes or goes, or is killed, leaves the definitions, the headers and the
\* memory alone while somebody else is ready (rtdb_api.c:279, 354-357, 195-199).
THEOREM NoDisturbance ==
  ASSUME Serial
  PROVE  Spec => OthersUndisturbed
<1>1. SerialInv /\ SerialInv' /\ PerKey /\ PerKey' /\ [RtNext]_vars =>
        [(\E p \in Procs : pc[p] = "ready" /\ pc'[p] = "ready") /\ pc' # pc
           => UNCHANGED <<def, hdr, mem>>]_vars
  <2> SUFFICES ASSUME SerialInv, SerialInv', PerKey, PerKey', [RtNext]_vars, pc' # pc,
                      NEW q \in Procs, pc[q] = "ready", pc'[q] = "ready"
               PROVE  UNCHANGED <<def, hdr, mem>>
    OBVIOUS
  <2>1. Shape /\ Typed /\ OneBusy /\ ConfInv /\ HdrInv /\ MemInv /\ SizeInv
    BY DEF SerialInv, Shape, RtInv
  <2>2. SegStep
    BY StepsAre DEF Rest
  <2>3. PICK p \in Procs : Acts(p)
    BY <2>2, OneActs
  <2>4. Calm(p) /\ pc \in [Procs -> States]
    BY <2>1, <2>3, ActsInCalm DEF Typed
  <2>5. q # p
    <3>1. pc[p] = "ready" => pc'[p] # "ready"
      BY <2>3, <2>4 DEF Acts, Start, Load, Attach, Check, Leave, Detach, Crash
    <3> QED  BY <3>1
  <2>6. Configured
    BY <2>1 DEF ConfInv, Up
  <2>7. \A k \in 0 .. LocalKey : k \in SegKeys /\ q \in seg[k].att
    BY <2>1, ReadyHolds
  <2>8. LocalKey \in Nat /\ LocalKey = Len(Conf) + 1
    BY <2>1, <2>6, LocalKeyFacts DEF Configured
  <2>9. ~(Check(p) /\ IsFirst(LocalKey))
    <3> SUFFICES ASSUME Check(p), IsFirst(LocalKey) PROVE FALSE
      OBVIOUS
    <3>1. LocalKey \in 0 .. LocalKey
      BY <2>8
    <3>2. p \in seg[LocalKey].att
      BY <2>1, <3>1, ReadyHolds DEF Check
    <3> QED  BY <2>1, <2>5, <2>7, <3>1, <3>2, FirstIsAlone
  <2>10. def' = def
    BY <2>1, <2>3, <2>4, <2>5, <2>9, DefStays
  <2>11. ASSUME NEW k \in SegKeys PROVE hdr'[k] = hdr[k] /\ mem'[k] = mem[k]
    <3>1. mem'[k] = IF seg'[k].size = 0 THEN <<>> ELSE mem[k]
      BY <2>2 DEF SegStep
    <3>2. CASE q \in seg[k].att
      <4>1. hdr'[k] = hdr[k] /\ (seg[k].size # 0 => seg'[k].size # 0)
        BY <2>1, <2>3, <2>5, <2>9, <3>2, HdrGoes DEF HdrInv
      <4>2. seg[k].size = 0 => mem[k] = <<>>
        BY <2>1 DEF MemInv
      <4> QED  BY <3>1, <4>1, <4>2
    <3>3. CASE q \notin seg[k].att
      <4>1. k \notin 0 .. LocalKey
        BY <2>7, <3>3
      <4>2. k \notin Areas /\ k # DefKey
        BY <2>8, <4>1 DEF Areas, DefKey
      <4>3. seg[k].size = 0
        BY <2>1, <4>2 DEF SizeInv
      <4>4. seg'[k].size = 0 /\ hdr'[k] = <<>>
        <5>1. Areas' = Areas
          BY ConfStays
        <5>2. SizeInv' /\ HdrInv'
          BY DEF SerialInv, RtInv
        <5> QED  BY <4>2, <5>1, <5>2 DEF SizeInv, HdrInv
      <4>5. mem[k] = <<>> /\ hdr[k] = <<>>
        BY <2>1, <4>2, <4>3 DEF MemInv, HdrInv
      <4> QED  BY <3>1, <4>4, <4>5
    <3> QED  BY <3>2, <3>3
  <2>12. hdr' = hdr /\ mem' = mem
    BY <2>11 DEF PerKey
  <2> QED  BY <2>10, <2>12
<1> QED  BY <1>1, SerialHolds, PerKeyHolds, PTL DEF Spec, OthersUndisturbed

(***************************************************************************)
(* What DB_init promises.                                                  *)
(***************************************************************************)
LEMMA IdsAndSizes ==
  ASSUME NEW recs \in Seq(RecConf), NEW h, IsLayout(h, recs)
  PROVE  [j \in DOMAIN h |-> [id |-> h[j].id, size |-> h[j].size]] = recs
<1>1. DOMAIN h = 1 .. Len(recs)
  BY DEF IsLayout
<1>2. \A j \in 1 .. Len(recs) : recs[j] \in RecConf
  OBVIOUS
<1>3. \A j \in 1 .. Len(recs) : [id |-> h[j].id, size |-> h[j].size] = recs[j]
  BY <1>1, <1>2 DEF IsLayout, RecConf
<1>4. recs = [j \in 1 .. Len(recs) |-> recs[j]]
  OBVIOUS
<1> QED  BY <1>1, <1>3, <1>4

\* The agent's number is that of an agent of every configuration file that can be
\* read: the code indexes its tables with it unchecked.
SelfListed ==
  \A f \in Files : ReadConfiguration(f) # <<>> => Self < Len(ReadConfiguration(f))

\* Whoever is back from DB_init finds the database as the configuration file has
\* it, whoever was first and whatever killed processes have left behind
\* (rtdb_api.c:278-394, 354-357).
THEOREM ReadyIsConfigured ==
  ASSUME Serial, SelfListed
  PROVE  Spec => []ReadyMeansConfigured
<1>1. SerialInv => ReadyMeansConfigured
  <2> SUFFICES ASSUME SerialInv, NEW p \in Procs, pc[p] = "ready"
               PROVE  /\ Self < Len(Conf) /\ def.n = Len(Conf)
                      /\ Range(got[p]) = DefKey .. LocalKey
                      /\ def.lut = Lookup(Conf)
                      /\ CommIni = Conf[Self + 1].shared
                      /\ \A k \in 1 .. Len(Conf) + 1 :
                           [j \in DOMAIN hdr[k] |-> [id |-> hdr[k][j].id, size |-> hdr[k][j].size]]
                             = IF k = LocalKey THEN Conf[Self + 1].local ELSE Conf[k].shared
    BY DEF ReadyMeansConfigured, Conf
  <2>1. Shape /\ Typed /\ ConfInv /\ HdrInv
    BY DEF SerialInv, Shape, RtInv
  <2>2. Configured /\ def.lut = Lookup(Conf) /\ \A k \in Areas : IsLayout(hdr[k], RecsAt(k))
    BY <2>1 DEF ConfInv, Up, HdrInv
  <2>3. /\ Self < Len(Conf) /\ def.n = Len(Conf) /\ LocalKey = Len(Conf) + 1
        /\ Len(Conf) \in Nat /\ Len(Conf) <= MaxAgents /\ Self \in Nat
    BY <2>1, <2>2, ConfFacts, LocalKeyFacts, SegmentsConstants
    DEF Configured, SelfListed, Typed, Conf
  <2>4. Range(got[p]) = DefKey .. LocalKey
    BY <2>1, ReadyHolds DEF DefKey
  <2>5. ASSUME NEW k \in Areas
        PROVE  [j \in DOMAIN hdr[k] |-> [id |-> hdr[k][j].id, size |-> hdr[k][j].size]] = RecsAt(k)
    BY <2>1, <2>2, ConfFacts, IdsAndSizes
  <2>6. \A k \in Areas : RecsAt(k) = IF k = LocalKey THEN Conf[Self + 1].local ELSE Conf[k].shared
    BY <2>3 DEF RecsAt, OwnRecs
  <2>7. CommIni = Conf[Self + 1].shared
    <3>1. DefKey + Self + 1 = Self + 1 /\ Self + 1 \in Areas /\ Self + 1 # Len(Conf) + 1
          /\ Self \in Agents
      BY <2>3, SegmentsConstants DEF DefKey, Areas, Agents
    <3>2. RecsAt(Self + 1) = Conf[Self + 1].shared
      BY <3>1 DEF RecsAt
    <3>3. def.recs[Self] = Len(Conf[Self + 1].shared)
      BY <2>2, <2>3, <3>1 DEF Configured
    <3>4. DOMAIN hdr[Self + 1] = 1 .. def.recs[Self]
      BY <2>2, <3>1, <3>2, <3>3 DEF IsLayout
    <3> QED  BY <2>5, <3>1, <3>2, <3>4 DEF CommIni
  <2> QED  BY <2>2, <2>3, <2>4, <2>5, <2>6, <2>7 DEF Areas
<1> QED  BY <1>1, SerialHolds, PTL

(***************************************************************************)
(* A start that fails heals what made it fail.                             *)
(***************************************************************************)
\* The definitions have been loaded into an empty segment.
Fresh ==
  /\ \A a \in Agents : a < Len(Conf) => def.shared[a] = AreaSize(0, Conf[a + 1].shared)
  /\ def.local = AreaSize(0, OwnRecs)

HealInv ==
  Startable =>
    /\ \A p \in Procs : pc[p] = "fail" =>
         failures = 0 /\ \A q \in Procs \ {p} : pc[q] = "off"
    /\ failures <= 1
    /\ failures = 1 =>
         /\ \A p \in Procs : pc[p] \in {"off", "load", "attach", "check"}
         /\ (\A p \in Procs : ~Up(p)) => def = NoDef
         /\ (\E p \in Procs : Up(p)) => Fresh

\* Segments left over are large enough for definitions that are fresh, and no
\* start fails while somebody is ready.
LEMMA NoFailure ==
  ASSUME SerialInv, Startable, NEW p \in Procs, pc[p] = "attach",
         Fresh \/ \E q \in Procs \ {p} : pc[q] = "ready"
  PROVE  Shmget(Len(got[p]), SizeOf(Len(got[p])))
<1> DEFINE k == Len(got[p])
<1>1. Shape /\ Typed /\ ConfInv /\ SizeInv
  BY DEF SerialInv, Shape
<1>2. Configured /\ k \in 1 .. LocalKey
  BY <1>1 DEF ConfInv, Up, Shape, GotShape
<1> HIDE DEF k
<1>3. /\ k \in Areas /\ k \in SegKeys \ {DefKey} /\ SizeOf(k) \in Nat
      /\ AreaSize(0, RecsAt(k)) <= SizeOf(k) /\ AreaSize(0, RecsAt(k)) \in Nat
      /\ LocalKey = Len(Conf) + 1 /\ Len(Conf) \in Nat /\ def \in Tables
      /\ Len(Conf) <= MaxAgents /\ MaxAgents \in Nat
  BY <1>1, <1>2, AskedSize, ConfFacts, LocalKeyFacts, SegmentsConstants DEF Configured, Typed
<1>4. seg[k].size \in Nat
  BY <1>1, <1>3 DEF Typed
\* what is asked is not nothing
<1>5. SizeOf(k) > 0
  <2>1. CASE k = LocalKey
    <3>1. SizeOf(k) = IF def.local = 0 THEN 1 ELSE def.local
      BY <2>1 DEF SizeOf
    <3> QED  BY <1>3, <3>1
  <2>2. CASE k # LocalKey
    <3>1. k \in 1 .. Len(Conf) /\ RecsAt(k) = Conf[k].shared
      BY <1>2, <1>3, <2>2 DEF RecsAt
    <3>2. RecsAt(k) # <<>> /\ RecsAt(k) \in Seq(RecConf)
      BY <1>1, <1>3, <3>1, ConfFacts DEF Startable, Conf
    <3>3. Len(RecsAt(k)) \in Nat \ {0}
      BY <3>2, EmptySeq
    <3>4. Header * Len(RecsAt(k)) \in Nat /\ Header * Len(RecsAt(k)) > 0
      BY <3>3, SegmentsConstants
    <3>5. DataSize(RecsAt(k), Len(RecsAt(k))) \in Nat
      BY <3>2, <3>3, SumUnfolds
    <3>6. AreaSize(0, RecsAt(k)) > 0
      BY <3>4, <3>5 DEF AreaSize
    <3> QED  BY <1>3, <3>6
  <2> QED  BY <2>1, <2>2
<1>6. seg[k].size # 0 => SizeOf(k) <= seg[k].size
  <2> SUFFICES ASSUME seg[k].size # 0 PROVE SizeOf(k) <= seg[k].size
    OBVIOUS
  <2>1. CASE Fresh
    <3>1. AreaSize(0, RecsAt(k)) <= seg[k].size
      BY <1>1, <1>3 DEF SizeInv
    <3>2. CASE k = LocalKey
      <4>1. RecsAt(k) = OwnRecs /\ def.local = AreaSize(0, RecsAt(k))
        BY <1>3, <2>1, <3>2 DEF RecsAt, Fresh
      <4>2. SizeOf(k) = IF def.local = 0 THEN 1 ELSE def.local
        BY <3>2 DEF SizeOf
      <4> QED  BY <1>4, <3>1, <4>1, <4>2
    <3>3. CASE k # LocalKey
      <4>1. k - 1 \in Agents /\ k - 1 < Len(Conf) /\ (k - 1) + 1 = k
        BY <1>2, <1>3, <3>3 DEF Agents
      <4>2. SizeOf(k) = def.shared[k - 1] /\ RecsAt(k) = Conf[k].shared
        BY <1>3, <3>3 DEF SizeOf, RecsAt
      <4>3. def.shared[k - 1] = AreaSize(0, Conf[k].shared)
        BY <2>1, <4>1 DEF Fresh
      <4> QED  BY <3>1, <4>2, <4>3
    <3> QED  BY <3>2, <3>3
  <2>2. CASE \E q \in Procs \ {p} : pc[q] = "ready"
    <3>1. PICK q \in Procs \ {p} : pc[q] = "ready"
      BY <2>2
    <3>2. Range(got[q]) = 0 .. LocalKey
      BY <1>1, <3>1, ReadyHolds
    <3>3. k \in Range(got[q]) \ {DefKey}
      BY <1>2, <1>3, <3>2
    <3> QED  BY <1>1, <3>1, <3>3 DEF SizeInv, Up
  <2> QED  BY <2>1, <2>2
<1>7. Shmget(k, SizeOf(k))
  BY <1>5, <1>6 DEF Shmget
<1> QED  BY <1>7 DEF k

LEMMA FreshLoaded ==
  ASSUME Typed, file' = file, def = NoDef, def' = Loaded(def, Conf)
  PROVE  Fresh'
<1>1. /\ Conf \in Seq(AgentConf) /\ Len(Conf) <= MaxAgents /\ def \in Tables /\ Conf' = Conf
      /\ OwnRecs' = OwnRecs
  BY ConfFacts DEF Typed, Conf, OwnRecs
<1>2. /\ \A a \in Agents : def.shared[a] = 0
      /\ def.local = 0
  BY DEF NoDef
<1>3. /\ \A a \in Agents : a < Len(Conf) =>
           def'.shared[a] = AreaSize(def.shared[a], Conf[a + 1].shared)
      /\ Self < Len(Conf) => def'.local = AreaSize(def.local, Conf[Self + 1].local)
  BY <1>1, LoadedTyped
<1>4. ~(Self < Len(Conf)) => def'.local = def.local
  BY <1>1 DEF Loaded, Tables
<1>5. def'.local = AreaSize(0, OwnRecs)
  <2>1. CASE Self < Len(Conf)
    BY <1>2, <1>3, <2>1 DEF OwnRecs
  <2>2. CASE ~(Self < Len(Conf))
    BY <1>2, <1>4, <2>2, ConfFacts DEF OwnRecs
  <2> QED  BY <2>1, <2>2
<1> QED  BY <1>1, <1>2, <1>3, <1>5 DEF Fresh

LEMMA HealStep ==
  ASSUME Serial, SerialInv, HealInv, [RtNext]_vars, Startable
  PROVE  HealInv'
<1>1. /\ Shape /\ Typed /\ OneBusy /\ pc \in [Procs -> States] /\ failures \in 0 .. 2
      /\ file' = file /\ Conf' = Conf /\ OwnRecs' = OwnRecs
  BY ConfStays DEF SerialInv, Shape, Typed
<1>2. /\ \A p \in Procs : pc[p] = "fail" => failures = 0 /\ \A q \in Procs \ {p} : pc[q] = "off"
      /\ failures <= 1
      /\ failures = 1 =>
           /\ \A p \in Procs : pc[p] \in {"off", "load", "attach", "check"}
           /\ (\A p \in Procs : ~Up(p)) => def = NoDef
           /\ (\E p \in Procs : Up(p)) => Fresh
  BY DEF HealInv
<1>3. def' = def /\ Fresh => Fresh'
  BY <1>1 DEF Fresh
<1>4. CASE Rest
  <2>1. failures' = failures /\ pc' = pc /\ def' = def
    BY <1>4 DEF Rest
  <2> QED  BY <1>2, <1>3, <2>1 DEF HealInv, Up
<1>5. CASE SegStep
  <2>1. PICK p \in Procs : Acts(p)
    BY <1>5, OneActs
  <2>2. Calm(p)
    BY <1>1, <2>1, ActsInCalm
  <2>3. SUFFICES
          /\ pc'[p] = "fail" => failures' = 0 /\ \A q \in Procs \ {p} : pc'[q] = "off"
          /\ failures' <= 1
          /\ failures' = 1 =>
               /\ \A q \in Procs : pc'[q] \in {"off", "load", "attach", "check"}
               /\ (\A q \in Procs : ~Up(q)') => def' = NoDef
               /\ (\E q \in Procs : Up(q)') => Fresh'
    <3>1. ASSUME NEW q \in Procs, pc'[q] = "fail" PROVE q = p
      BY <2>2, <3>1 DEF Calm
    <3> QED  BY <3>1 DEF HealInv, Up
  <2>4. CASE Start(p)
    <3>1. failures' = failures /\ def' = def /\ pc[p] = "off" /\ pc' = [pc EXCEPT ![p] = "load"]
      BY <2>4 DEF Start
    <3>2. \A q \in Procs : Up(q)' <=> Up(q)
      BY <1>1, <3>1 DEF Up
    <3> QED  BY <1>1, <1>2, <1>3, <3>1, <3>2
  <2>5. CASE Load(p)
    <3>1. failures' = failures /\ pc[p] = "load" /\ p \in seg[DefKey].att
      BY <1>1, <2>5, HoldsShape DEF Load
    <3>2. ~(Len(Conf) < 1)
      <4>1. Conf # <<>> /\ Conf \in Seq(AgentConf)
        BY <1>1, ConfFacts DEF Startable, Conf
      <4> QED  BY <4>1, EmptySeq
    <3>3. pc' = [pc EXCEPT ![p] = "attach"]
      BY <2>5, <3>2 DEF Load, Conf
    <3>4. ASSUME failures' = 1
          PROVE  /\ \A q \in Procs : pc'[q] \in {"off", "load", "attach", "check"}
                 /\ Fresh'
      <4>1. \A q \in Procs : pc[q] \in {"off", "load", "attach", "check"}
        BY <1>2, <3>1, <3>4
      <4>2. IsFirst(DefKey)
        BY <1>1, <2>2, <3>1, <4>1, Company, KeyFacts
      <4>3. \A q \in Procs : ~Up(q)
        BY <2>2, <3>1, <4>1 DEF Calm, Up
      <4>4. def = NoDef
        BY <1>2, <3>1, <3>4, <4>3
      <4>5. def' = Loaded(def, Conf)
        BY <2>5, <3>2, <4>2 DEF Load, Conf
      <4> QED  BY <1>1, <3>3, <4>1, <4>4, <4>5, FreshLoaded
    <3>5. Up(p)' /\ pc'[p] # "fail"
      BY <1>1, <3>3 DEF Up
    <3> QED  BY <1>2, <3>1, <3>4, <3>5
  <2>6. CASE Attach(p)
    <3>1. failures' = failures /\ def' = def /\ pc[p] = "attach" /\ Up(p)
      BY <2>6 DEF Attach, Up
    <3>2. CASE Fresh \/ \E q \in Procs \ {p} : pc[q] = "ready"
      <4>1. DefKey + Len(got[p]) = Len(got[p])
        BY <1>1, HoldsShape DEF DefKey
      <4>2. Shmget(DefKey + Len(got[p]), SizeOf(DefKey + Len(got[p])))
        BY <3>1, <3>2, <4>1, NoFailure
      <4>3. pc' = [pc EXCEPT ![p] = IF DefKey + Len(got[p]) = LocalKey THEN "check" ELSE @]
        BY <2>6, <4>2 DEF Attach
      <4>4. pc'[p] \in {"attach", "check"} /\ Up(p)' /\ \A q \in Procs \ {p} : pc'[q] = pc[q]
        BY <1>1, <3>1, <4>3 DEF Up
      <4> QED  BY <1>2, <1>3, <3>1, <4>4
    <3>3. CASE ~(Fresh \/ \E q \in Procs \ {p} : pc[q] = "ready")
      <4>1. failures = 0
        BY <1>1, <1>2, <3>1, <3>3
      <4>2. \A q \in Procs \ {p} : pc'[q] = "off"
        BY <2>2, <3>3 DEF Calm
      <4> QED  BY <3>1, <4>1, <4>2
    <3> QED  BY <3>2, <3>3
  <2>7. CASE Check(p)
    <3>1. failures' = 0 /\ pc'[p] = "ready"
      BY <1>1, <2>7 DEF Check
    <3> QED  BY <3>1
  <2>8. CASE Leave(p)
    <3>1. failures' = failures /\ pc[p] = "ready" /\ pc'[p] = "free"
      BY <1>1, <2>8 DEF Leave
    <3>2. failures = 0
      BY <1>1, <1>2, <3>1
    <3> QED  BY <3>1, <3>2
  <2>9. CASE Detach(p)
    <3> DEFINE i == NextDetached(p)
               k == got[p][i]
    <3>1. /\ pc[p] \in {"free", "fail"}
          /\ def' = IF k = DefKey /\ IsLast(p, k) THEN NoDef ELSE def
          /\ pc'[p] = IF Len(got[p]) = 1 THEN "off" ELSE pc[p]
          /\ failures' = IF pc[p] = "fail" /\ Len(got[p]) = 1 THEN Min({failures + 1, 2})
                         ELSE failures
      BY <1>1, <2>9 DEF Detach
    <3>2. k = DefKey <=> Len(got[p]) = 1
      BY <1>1, <3>1, DetachTakes
    <3> HIDE DEF i, k
    <3>3. CASE pc[p] = "fail" /\ Len(got[p]) = 1
      <4>1. failures = 0 /\ \A q \in Procs \ {p} : pc[q] = "off" /\ pc'[q] = "off"
        BY <1>2, <2>2, <3>3 DEF Calm
      <4>2. failures' = 1
        <5>1. Min({0 + 1, 2}) = 1
          BY DEF Min
        <5> QED  BY <3>1, <3>3, <4>1, <5>1
      <4>3. k = DefKey /\ pc'[p] = "off"
        BY <3>1, <3>2, <3>3
      <4>4. IsLast(p, DefKey)
        <5>1. seg[DefKey].att \subseteq Procs
          BY <1>1, KeyFacts DEF Typed
        <5>2. ASSUME NEW q \in seg[DefKey].att PROVE q = p
          <6> SUFFICES ASSUME q # p PROVE FALSE
            OBVIOUS
          <6>1. q \in Procs \ {p} /\ GotShape(q)
            BY <1>1, <5>1 DEF Shape
          <6>2. got[q] = <<>> /\ Range(<<>>) = {}
            BY <4>1, <6>1 DEF GotShape, Range
          <6> QED  BY <5>2, <6>1, <6>2, KeyFacts DEF GotShape
        <5> QED  BY <5>2 DEF IsLast, Remaining
      <4>5. def' = NoDef
        BY <3>1, <4>3, <4>4
      <4>6. \A q \in Procs : pc'[q] = "off"
        BY <4>1, <4>3
      <4> QED  BY <4>2, <4>5, <4>6 DEF Up
    <3>4. CASE ~(pc[p] = "fail" /\ Len(got[p]) = 1)
      <4>1. failures' = failures /\ failures = 0
        BY <1>1, <1>2, <3>1, <3>4
      <4>2. pc'[p] = "fail" => pc[p] = "fail"
        BY <3>1
      <4>3. pc'[p] = "fail" => \A q \in Procs \ {p} : pc'[q] = "off"
        BY <1>2, <2>2, <4>2 DEF Calm
      <4> QED  BY <4>1, <4>3
    <3> QED  BY <3>3, <3>4
  <2>10. CASE Crash(p)
    <3>1. failures' = 0 /\ pc'[p] = "off"
      BY <1>1, <2>10 DEF Crash
    <3> QED  BY <3>1
  <2> QED  BY <2>1, <2>4, <2>5, <2>6, <2>7, <2>8, <2>9, <2>10 DEF Acts
<1> QED  BY <1>4, <1>5, StepsAre

\* A start that the segments of killed processes make fail is followed by one
\* that succeeds (rtdb_api.c:297-308, 316-321, 212-218).
THEOREM FailureHealed ==
  ASSUME Serial
  PROVE  Spec => []FailureHeals
<1>1. RtInit => HealInv
  BY RtInitIs DEF HealInv, Up
<1>2. SerialInv /\ HealInv /\ [RtNext]_vars => HealInv'
  <2> SUFFICES ASSUME SerialInv, HealInv, [RtNext]_vars PROVE HealInv'
    OBVIOUS
  <2>1. Startable' = Startable
    BY ConfStays DEF Startable
  <2>2. CASE Startable
    BY <2>2, HealStep
  <2>3. CASE ~Startable
    BY <2>1, <2>3 DEF HealInv
  <2> QED  BY <2>2, <2>3
<1>3. SerialInv /\ HealInv => FailureHeals
  BY DEF HealInv, FailureHeals
<1> QED  BY <1>1, <1>2, <1>3, SerialHolds, PTL DEF Spec

(***************************************************************************)
(* No two cells have the same address.                                     *)
(***************************************************************************)
LEMMA Multiples ==
  ASSUME NEW m \in Nat, NEW n \in Nat, m < n, NEW h \in Nat
  PROVE  m * h \in Nat /\ n * h \in Nat /\ (m * h) + h <= n * h
<1>1. PICK d \in Nat : n = m + 1 + d
  <2>1. (n - m) - 1 \in Nat /\ n = m + 1 + ((n - m) - 1)
    OBVIOUS
  <2> QED  BY <2>1
<1>2. m * h \in Nat /\ d * h \in Nat /\ n * h \in Nat
  OBVIOUS
<1>3. n * h = m * h + h + d * h
  BY <1>1
<1> QED  BY <1>2, <1>3

\* The cell w of bank b of a record, a value or a half of the time stamp.
LEMMA CellPlaces ==
  ASSUME NEW recs \in Seq(RecConf), NEW h, IsLayout(h, recs), NEW j \in DOMAIN h,
         NEW b \in {0, 1}, NEW w \in 1 .. h[j].size + 2
  PROVE  LET a == Cells(h[j], j, b)[w]
             s == h[j].size
         IN  /\ a \in Nat /\ s \in Nat
             /\ w <= s => /\ a = Base(recs, j) + b * s + w - 1
                          /\ Base(recs, j) <= a /\ a < Base(recs, j + 1)
                          /\ Header * Len(recs) <= a
             /\ ~(w <= s) => /\ a = (j - 1) * Header + 2 * b + (w - s)
                             /\ a < Header * Len(recs) /\ (w - s) \in {1, 2}
<1> DEFINE a == Cells(h[j], j, b)[w]
           s == h[j].size
           L == Len(recs)
           B(n) == Base(recs, n)
<1>1. /\ a \in Nat /\ s \in Nat /\ w \in 1 .. s + 2
      /\ w <= s => a = B(j) + b * s + w - 1
      /\ w = s + 1 => a = SecAt(j, b)
      /\ w = s + 2 => a = UsecAt(j, b)
  <2>1. h[j].size \in Nat
    BY CellsAre
  <2>2. w <= s => w \in 1 .. s
    BY <2>1
  <2> QED  BY <2>1, <2>2, CellsAre
<1>2. /\ j \in 1 .. L /\ L \in Nat /\ B(j) \in Nat /\ B(j + 1) \in Nat
      /\ B(j + 1) = B(j) + 2 * s
  BY BanksAre, RecTypes
<1>3. Header * L \in Nat /\ Header * L <= B(j)
  <2>1. 1 \in 1 .. L + 1 /\ j \in 1 .. L + 1 /\ 1 <= j
    BY <1>2
  <2> QED  BY <2>1, BaseFacts
<1>4. Header \in Nat /\ Header >= 5
  BY SegmentsConstants, RtDB1Constants
<1>5. (j - 1) * Header \in Nat /\ (j - 1) * Header + Header <= Header * L
  <2> DEFINE m == j - 1
  <2>1. m \in Nat /\ L \in Nat /\ m < L
    BY <1>2
  <2> HIDE DEF m, L
  <2>2. m * Header \in Nat /\ m * Header + Header <= L * Header
    BY <1>4, <2>1, Multiples
  <2>3. L * Header = Header * L
    BY <1>4, <2>1
  <2> QED  BY <2>2, <2>3 DEF m
<1> DEFINE x == (j - 1) * Header
           y == Header * L
<1> HIDE DEF a, s, L, B
<1>6. ASSUME w <= s PROVE a = B(j) + b * s + w - 1 /\ B(j) <= a /\ a < B(j + 1) /\ y <= a
  <2>1. y \in Nat /\ y <= B(j)
    BY <1>3
  <2> HIDE DEF y
  <2> QED  BY SMTT(30), <1>1, <1>2, <1>6, <2>1
<1>7. ASSUME ~(w <= s) PROVE a = x + 2 * b + (w - s) /\ a < y /\ (w - s) \in {1, 2}
  <2>1. w = s + 1 \/ w = s + 2
    BY <1>1, <1>7
  <2>2. a = x + 2 * b + (w - s)
    <3>1. SecAt(j, b) = x + 1 + 2 * b /\ UsecAt(j, b) = x + 2 + 2 * b /\ x \in Nat
      BY <1>5 DEF SecAt, UsecAt
    <3> HIDE DEF x
    <3> QED  BY <1>1, <2>1, <3>1
  <2>3. x \in Nat /\ y \in Nat /\ x + Header <= y
    BY <1>3, <1>5
  <2> HIDE DEF x, y
  <2> QED  BY <1>1, <1>4, <2>1, <2>2, <2>3
<1> QED  BY <1>1, <1>6, <1>7 DEF a, s, L, B, x, y

LEMMA CellsApart ==
  ASSUME NEW recs \in Seq(RecConf), NEW h, IsLayout(h, recs),
         NEW j \in DOMAIN h, NEW b \in {0, 1}, NEW w \in 1 .. h[j].size + 2,
         NEW i \in DOMAIN h, NEW c \in {0, 1}, NEW v \in 1 .. h[i].size + 2,
         Cells(h[j], j, b)[w] = Cells(h[i], i, c)[v]
  PROVE  j = i /\ b = c /\ w = v
<1> DEFINE a == Cells(h[j], j, b)[w]
           s == h[j].size
           t == h[i].size
           L == Len(recs)
           B(n) == Base(recs, n)
<1>1. /\ a \in Nat /\ s \in Nat /\ t \in Nat /\ a = Cells(h[i], i, c)[v]
      /\ w \in 1 .. s + 2 /\ v \in 1 .. t + 2
  BY CellPlaces
<1>2. /\ w <= s => a = B(j) + b * s + w - 1 /\ B(j) <= a /\ a < B(j + 1) /\ Header * L <= a
      /\ ~(w <= s) => a = (j - 1) * Header + 2 * b + (w - s) /\ a < Header * L
                      /\ (w - s) \in {1, 2}
  BY SMTT(30), CellPlaces
<1>3. /\ v <= t => a = B(i) + c * t + v - 1 /\ B(i) <= a /\ a < B(i + 1) /\ Header * L <= a
      /\ ~(v <= t) => a = (i - 1) * Header + 2 * c + (v - t) /\ a < Header * L
                      /\ (v - t) \in {1, 2}
  BY SMTT(30), <1>1, CellPlaces
<1>4. j \in 1 .. L /\ i \in 1 .. L /\ L \in Nat /\ Header \in Nat /\ Header >= 5
  BY RecTypes, SegmentsConstants, RtDB1Constants DEF IsLayout
<1>5. Header * L \in Nat
  BY <1>4
<1> HIDE DEF a, s, t, L, B
<1>6. CASE w <= s /\ v <= t
  <2>1. \A m, n \in 1 .. L + 1 : B(m) \in Nat /\ (m <= n => B(m) <= B(n))
    BY BaseFacts DEF B, L
  <2>2. j = i
    <3>1. /\ j \in 1 .. L + 1 /\ j + 1 \in 1 .. L + 1 /\ i \in 1 .. L + 1 /\ i + 1 \in 1 .. L + 1
      BY <1>4
    <3>2. ~(j + 1 <= i)
      <4> SUFFICES ASSUME j + 1 <= i PROVE FALSE
        OBVIOUS
      <4>1. B(j + 1) <= B(i) /\ B(j + 1) \in Nat /\ B(i) \in Nat
        BY <2>1, <3>1
      <4>2. B(i) <= a /\ a < B(j + 1)
        BY <1>2, <1>3, <1>6
      <4> QED  BY <1>1, <4>1, <4>2
    <3>3. ~(i + 1 <= j)
      <4> SUFFICES ASSUME i + 1 <= j PROVE FALSE
        OBVIOUS
      <4>1. B(i + 1) <= B(j) /\ B(i + 1) \in Nat /\ B(j) \in Nat
        BY <2>1, <3>1
      <4>2. B(j) <= a /\ a < B(i + 1)
        BY <1>2, <1>3, <1>6
      <4> QED  BY <1>1, <4>1, <4>2
    <3> QED  BY <1>4, <3>2, <3>3
  <2>3. s = t /\ B(j) \in Nat
    <3>1. j \in 1 .. L + 1
      BY <1>4
    <3> QED  BY <2>1, <2>2, <3>1 DEF s, t
  <2>4. a = B(j) + b * s + w - 1 /\ a = B(j) + c * s + v - 1
    BY <1>2, <1>3, <1>6, <2>2, <2>3
  <2>5. b * s + w = c * s + v
    <3> DEFINE x == b * s
               y == c * s
               z == B(j)
    <3>1. x \in Nat /\ y \in Nat /\ z \in Nat /\ a = z + x + w - 1 /\ a = z + y + v - 1
          /\ w \in Nat /\ v \in Nat
      BY SMTT(30), <1>1, <2>3, <2>4
    <3> HIDE DEF x, y, z
    <3>2. x + w = y + v
      BY ONLY <3>1
    <3> QED  BY <3>2 DEF x, y
  <2>6. b = c /\ w = v
    <3>1. w \in 1 .. s /\ v \in 1 .. s /\ s \in Nat
      BY <1>1, <1>6, <2>3
    <3>2. CASE b = 0 /\ c = 0
      BY <2>5, <3>1, <3>2
    <3>3. CASE b = 1 /\ c = 1
      BY <2>5, <3>1, <3>3
    <3>4. CASE b = 0 /\ c = 1
      BY <2>5, <3>1, <3>4
    <3>5. CASE b = 1 /\ c = 0
      BY <2>5, <3>1, <3>5
    <3> QED  BY <3>2, <3>3, <3>4, <3>5
  <2> QED  BY <2>2, <2>6
<1>7. CASE ~(w <= s) /\ ~(v <= t)
  <2> DEFINE m == j - 1
             n == i - 1
             x == m * Header
             y == n * Header
             d == 2 * b + (w - s)
             e == 2 * c + (v - t)
  <2>1. m \in Nat /\ n \in Nat
    BY <1>4
  <2>2. d \in 1 .. 4 /\ e \in 1 .. 4
    BY <1>2, <1>3, <1>7
  <2>3. a = x + d /\ a = y + e
    <3>1. a = (x + 2 * b) + (w - s) /\ a = (y + 2 * c) + (v - t)
      BY <1>2, <1>3, <1>7
    <3>2. x \in Nat /\ y \in Nat
      BY SMTT(30), <1>4, <2>1
    <3>3. w - s \in Int /\ v - t \in Int /\ 2 * b \in Nat /\ 2 * c \in Nat
      BY <1>1
    <3> HIDE DEF x, y
    <3>4. a = x + (2 * b + (w - s)) /\ a = y + (2 * c + (v - t))
      BY ONLY <3>1, <3>2, <3>3, SMTT(30)
    <3> QED  BY <3>4
  <2> HIDE DEF m, n, d, e
  <2>4. x \in Nat /\ y \in Nat
    BY <1>4, <2>1
  <2>5. m = n
    <3>1. ~(m < n)
      <4> SUFFICES ASSUME m < n PROVE FALSE
        OBVIOUS
      <4>1. x + Header <= y
        BY <1>4, <2>1, Multiples
      <4> HIDE DEF x, y
      <4> QED  BY <1>4, <2>2, <2>3, <2>4, <4>1
    <3>2. ~(n < m)
      <4> SUFFICES ASSUME n < m PROVE FALSE
        OBVIOUS
      <4>1. y + Header <= x
        BY <1>4, <2>1, Multiples
      <4> HIDE DEF x, y
      <4> QED  BY <1>4, <2>2, <2>3, <2>4, <4>1
    <3> QED  BY <2>1, <3>1, <3>2
  <2>6. d = e
    <3>1. x = y
      BY <2>5
    <3> HIDE DEF x, y
    <3> QED  BY <2>2, <2>3, <2>4, <3>1
  <2>7. j = i
    BY <1>4, <2>5 DEF m, n
  <2>8. s = t
    BY <2>7 DEF s, t
  <2>9. b = c /\ w = v
    <3>1. (w - s) \in {1, 2} /\ (v - s) \in {1, 2} /\ 2 * b + (w - s) = 2 * c + (v - s)
      BY <1>2, <1>3, <1>7, <2>6, <2>8 DEF d, e
    <3>2. b = c /\ w - s = v - s
      BY <3>1
    <3> QED  BY <1>1, <3>2
  <2> QED  BY <2>7, <2>9
<1>8. CASE ~((w <= s) <=> (v <= t))
  <2>1. Header * L <= a /\ a < Header * L
    BY <1>2, <1>3, <1>8
  <2> DEFINE y == Header * L
  <2>2. y \in Nat /\ y <= a /\ a < y
    BY <1>5, <2>1
  <2> HIDE DEF y
  <2> QED  BY <1>1, <2>2
<1> QED  BY <1>6, <1>7, <1>8

(***************************************************************************)
(* What a get sees while puts go on.                                       *)
(***************************************************************************)
\* The put that wrote a cell of a bank, the value's cells first.
Has(k, j, b, w) == At(k, Cells(hdr[k][j], j, b)[w])
CellsOf(k, j) == 1 .. hdr[k][j].size + 2

\* A segment that holds no records is as it was made.
BlankInv ==
  \A k \in SegKeys : DOMAIN hdr[k] = {} =>
    mem[k] = <<>> /\ begun[k] = Nothing /\ newest[k] = Nothing

\* The bank to read holds the newest put.
RecInv ==
  \A k \in SegKeys : \A j \in DOMAIN hdr[k] : \A w \in CellsOf(k, j) :
    Has(k, j, hdr[k][j].rb, w) = newest[k][j]

\* A put is the last one begun and works on the other bank.
PutRec(p) ==
  LET o == op[p]
  IN  op[p].kind = "put" =>
        /\ o.bank = 1 - hdr[o.k][o.j].rb
        /\ o.put = begun[o.k][o.j] /\ newest[o.k][o.j] < o.put
        /\ o.at <= hdr[o.k][o.j].size + 2
        /\ \A w \in 1 .. o.at : Has(o.k, o.j, o.bank, w) = o.put

\* What a get may see although it was put after the get began.
Late(o, v) == v > o.first => o.first < newest[o.k][o.j] /\ o.first + 2 <= begun[o.k][o.j]

\* The bank of a get is overwritten only after another put has been completed.
GetRec(p) ==
  LET o == op[p]
  IN  op[p].kind = "get" =>
        /\ o.first <= newest[o.k][o.j]
        /\ \A w \in 1 .. Len(o.seen) : o.first <= o.seen[w]
        /\ \A w \in 1 .. Len(o.seen) : w <= hdr[o.k][o.j].size => Late(o, o.seen[w])
        /\ \A w \in CellsOf(o.k, o.j) : o.first <= Has(o.k, o.j, o.bank, w)
        /\ Len(o.seen) <= hdr[o.k][o.j].size =>
             /\ newest[o.k][o.j] = o.first => hdr[o.k][o.j].rb = o.bank
             /\ \A w \in CellsOf(o.k, o.j) : Late(o, Has(o.k, o.j, o.bank, w))

RecentInv ==
  BlankInv /\ (~reused => RecInv /\ \A p \in Procs : PutRec(p) /\ GetRec(p))

LEMMA HasStays ==
  ASSUME NEW k, NEW j, mem'[k] = mem[k], hdr'[k][j].size = hdr[k][j].size,
         hdr'[k][j].offset = hdr[k][j].offset
  PROVE  /\ \A b, w : Has(k, j, b, w)' = Has(k, j, b, w)
         /\ CellsOf(k, j)' = CellsOf(k, j)
BY DEF Has, At, Cells, BankAt, CellsOf

LEMMA HasTyped ==
  ASSUME RtInv, NEW k \in SegKeys, NEW j, NEW b, NEW w
  PROVE  Has(k, j, b, w) \in Nat
BY ReadTyped DEF Has, RtInv

\* Two different puts are not of the same record.
LEMMA OwnerAlone ==
  ASSUME NEW p \in Procs, NEW q \in Procs, NEW k, NEW j, Owner(p, k, j), Owner(q, k, j)
  PROVE  p = q
<1>1. PICK a \in Agents, i \in Ids :
        <<p, a, i>> \in Puts /\ RecsAt(k)[j].id = i /\ a = IF k = Len(Conf) + 1 THEN Self ELSE k - 1
  BY DEF Owner
<1>2. PICK c \in Agents, m \in Ids :
        <<q, c, m>> \in Puts /\ RecsAt(k)[j].id = m /\ c = IF k = Len(Conf) + 1 THEN Self ELSE k - 1
  BY DEF Owner
<1>3. <<p, a, i>> = <<q, c, m>>
  BY <1>1, <1>2, RtDB1Constants
<1> QED  BY <1>3

\* A step leaves the record at k, j as a put of another process knows it: its header, its counts
\* and the first m cells of bank b.
KnownCellsStay(k, j, b, m) ==
  /\ hdr'[k][j].size = hdr[k][j].size /\ hdr'[k][j].rb = hdr[k][j].rb
  /\ begun'[k][j] = begun[k][j] /\ newest'[k][j] = newest[k][j]
  /\ \A w \in 1 .. m : Has(k, j, b, w)' = Has(k, j, b, w)

\* A step only adds to the record at k, j: its counts do not fall, its read bank turns only with a
\* newer value, and the cells written get a value newer than the newest, in the bank not read.
Grows(k, j) ==
  /\ hdr[k][j].size \in Nat /\ hdr'[k][j].size = hdr[k][j].size
  /\ newest[k][j] \in Nat /\ newest'[k][j] \in Nat /\ newest[k][j] <= newest'[k][j]
  /\ begun[k][j] \in Nat /\ begun'[k][j] \in Nat /\ begun[k][j] <= begun'[k][j]
  /\ hdr'[k][j].rb = hdr[k][j].rb \/ newest[k][j] < newest'[k][j]
  /\ \A b \in {0, 1} : \A w \in CellsOf(k, j) :
       /\ Has(k, j, b, w) \in Nat
       /\ \/ Has(k, j, b, w)' = Has(k, j, b, w)
          \/ /\ Has(k, j, b, w)' \in Nat /\ newest[k][j] < Has(k, j, b, w)'
             /\ Has(k, j, b, w)' <= begun'[k][j] /\ b # hdr[k][j].rb

LEMMA PutKept ==
  ASSUME NEW q \in Procs, PutRec(q), op'[q] = op[q], NEW k, NEW j, NEW b, NEW m,
         k = op[q].k, j = op[q].j, b = op[q].bank, m = op[q].at, KnownCellsStay(k, j, b, m)
  PROVE  PutRec(q)'
<1>1. /\ hdr'[k][j].size = hdr[k][j].size /\ hdr'[k][j].rb = hdr[k][j].rb
      /\ begun'[k][j] = begun[k][j] /\ newest'[k][j] = newest[k][j]
      /\ \A w \in 1 .. m : Has(k, j, b, w)' = Has(k, j, b, w)
  BY DEF KnownCellsStay
<1>2. k = op'[q].k /\ j = op'[q].j /\ b = op'[q].bank /\ m = op'[q].at /\ op'[q].put = op[q].put
  OBVIOUS
<1>3. op[q].kind = "put" =>
        /\ b = 1 - hdr[k][j].rb
        /\ op[q].put = begun[k][j] /\ newest[k][j] < op[q].put
        /\ m <= hdr[k][j].size + 2
        /\ \A w \in 1 .. m : Has(k, j, b, w) = op[q].put
  BY DEF PutRec
<1>4. op'[q].kind = "put" =>
        /\ b = 1 - hdr'[k][j].rb
        /\ op[q].put = begun'[k][j] /\ newest'[k][j] < op[q].put
        /\ m <= hdr'[k][j].size + 2
        /\ \A w \in 1 .. m : Has(k, j, b, w)' = op[q].put
  BY <1>1, <1>3
<1> QED  BY ONLY <1>2, <1>4 DEF PutRec

LEMMA GetKept ==
  ASSUME NEW q \in Procs, GetRec(q), op'[q] = op[q], op[q] \in GetOps,
         NEW k, NEW j, k = op[q].k, j = op[q].j, Grows(k, j)
  PROVE  GetRec(q)'
<1>0. /\ hdr[k][j].size \in Nat /\ hdr'[k][j].size = hdr[k][j].size
      /\ newest[k][j] \in Nat /\ newest'[k][j] \in Nat /\ newest[k][j] <= newest'[k][j]
      /\ begun[k][j] \in Nat /\ begun'[k][j] \in Nat /\ begun[k][j] <= begun'[k][j]
      /\ hdr'[k][j].rb = hdr[k][j].rb \/ newest[k][j] < newest'[k][j]
      /\ \A b \in {0, 1} : \A w \in CellsOf(k, j) :
           \/ Has(k, j, b, w)' = Has(k, j, b, w)
           \/ /\ Has(k, j, b, w)' \in Nat /\ newest[k][j] < Has(k, j, b, w)'
              /\ Has(k, j, b, w)' <= begun'[k][j] /\ b # hdr[k][j].rb
  BY DEF Grows
<1>1. PICK b, f, s : b = op[q].bank /\ f = op[q].first /\ s = op[q].seen
  OBVIOUS
<1>2. /\ op[q].kind = "get" /\ b \in {0, 1} /\ f \in Nat /\ s \in Seq(Nat) /\ Len(s) \in Nat
      /\ \A w \in 1 .. Len(s) : s[w] \in Nat
  <2>1. /\ op[q].kind = "get" /\ op[q].bank \in {0, 1} /\ op[q].first \in Nat
        /\ op[q].seen \in Seq(Nat)
    BY ONLY op[q] \in GetOps DEF GetOps
  <2>2. s \in Seq(Nat)
    BY <1>1, <2>1
  <2>3. Len(s) \in Nat /\ \A w \in 1 .. Len(s) : s[w] \in Nat
    BY ONLY <2>2
  <2> QED  BY <1>1, <2>1, <2>3
<1>3. PICK rb, size, n, m, np, mp :
        /\ rb = hdr[k][j].rb /\ size = hdr[k][j].size
        /\ n = newest[k][j] /\ m = begun[k][j] /\ np = newest'[k][j] /\ mp = begun'[k][j]
  OBVIOUS
<1>4. /\ size \in Nat /\ n \in Nat /\ m \in Nat /\ np \in Nat /\ mp \in Nat /\ n <= np /\ m <= mp
      /\ hdr'[k][j].rb = rb \/ n < np
  BY <1>0, <1>3
<1>5. /\ f <= n
      /\ \A w \in 1 .. Len(s) : f <= s[w]
      /\ \A w \in 1 .. Len(s) : w <= size /\ s[w] > f => f < n /\ f + 2 <= m
      /\ \A w \in CellsOf(k, j) : f <= Has(k, j, b, w)
      /\ Len(s) <= size =>
           /\ n = f => rb = b
           /\ \A w \in CellsOf(k, j) : Has(k, j, b, w) > f => f < n /\ f + 2 <= m
  BY <1>1, <1>2, <1>3 DEF GetRec, Late
<1>6. CellsOf(k, j)' = CellsOf(k, j)
  BY <1>0 DEF CellsOf
<1>7. /\ f <= np /\ (np = f => n = f /\ hdr'[k][j].rb = rb)
      /\ f < n => f < np
      /\ f + 2 <= m => f + 2 <= mp
  <2>1. f \in Nat /\ f <= n
    BY <1>2, <1>5
  <2> QED  BY ONLY <1>4, <2>1
<1>8. ASSUME NEW w \in CellsOf(k, j)
      PROVE  /\ f <= Has(k, j, b, w)'
             /\ Len(s) <= size /\ Has(k, j, b, w)' > f => f < np /\ f + 2 <= mp
  <2>1. CASE Has(k, j, b, w)' = Has(k, j, b, w)
    BY <1>5, <1>7, <2>1
  <2>2. CASE Has(k, j, b, w)' # Has(k, j, b, w)
    <3>1. PICK x : x = Has(k, j, b, w)'
      OBVIOUS
    <3>2. x \in Nat /\ n < x /\ x <= mp /\ b # rb
      BY <1>0, <1>2, <1>3, <2>2, <3>1
    <3>3. Len(s) <= size => n # f
      BY <1>5, <3>2
    <3>4. f <= x /\ (n # f => f < n /\ f + 2 <= mp)
      <4>1. f \in Nat /\ f <= n
        BY <1>2, <1>5
      <4> QED  BY ONLY <1>4, <3>2, <4>1
    <3> QED  BY <1>7, <3>1, <3>3, <3>4
  <2> QED  BY <2>1, <2>2
<1>9. \A w \in 1 .. Len(s) : w <= size /\ s[w] > f => f < np /\ f + 2 <= mp
  BY <1>5, <1>7
<1>10. Len(s) <= size /\ np = f => hdr'[k][j].rb = b
  BY <1>5, <1>7
<1>11. k = op'[q].k /\ j = op'[q].j /\ b = op'[q].bank /\ f = op'[q].first /\ s = op'[q].seen
  BY <1>1
<1>12. /\ f <= newest'[k][j]
       /\ \A w \in 1 .. Len(s) : f <= s[w]
       /\ \A w \in 1 .. Len(s) :
            w <= hdr'[k][j].size /\ s[w] > f => f < newest'[k][j] /\ f + 2 <= begun'[k][j]
       /\ \A w \in CellsOf(k, j)' : f <= Has(k, j, b, w)'
       /\ Len(s) <= hdr'[k][j].size =>
            /\ newest'[k][j] = f => hdr'[k][j].rb = b
            /\ \A w \in CellsOf(k, j)' :
                 Has(k, j, b, w)' > f => f < newest'[k][j] /\ f + 2 <= begun'[k][j]
  BY <1>0, <1>3, <1>5, <1>6, <1>7, <1>8, <1>9, <1>10
<1> QED  BY ONLY <1>11, <1>12 DEF GetRec, Late

\* What is known of the record an operation is at.
LEMMA OpFacts ==
  ASSUME Typed, ConfInv, RtInv, NEW q \in Procs, op[q].kind \in {"put", "get"}
  PROVE  LET k == op[q].k
             j == op[q].j
         IN  /\ op[q].kind = "put" => op[q] \in PutOps /\ Owner(q, k, j)
                                      /\ op[q].put \in 1 .. begun[k][j]
             /\ op[q].kind = "get" => op[q] \in GetOps
             /\ OpsAt(q) /\ k \in SegKeys /\ k \in Areas /\ j \in Places
             /\ IsLayout(hdr[k], RecsAt(k)) /\ RecsAt(k) \in Seq(RecConf)
             /\ j \in DOMAIN hdr[k] /\ hdr[k][j].size \in Nat /\ hdr[k][j].rb \in {0, 1}
             /\ newest[k][j] \in Nat /\ begun[k][j] \in Nat /\ newest[k][j] <= begun[k][j]
<1>1. HdrInv /\ OpsInv /\ CountInv
  BY DEF RtInv
<1>2. /\ op[q].kind = "put" => op[q] \in PutOps /\ Owner(q, op[q].k, op[q].j)
                               /\ op[q].put \in 1 .. begun[op[q].k][op[q].j]
      /\ op[q].kind = "get" => op[q] \in GetOps
      /\ OpsAt(q)
  <2>1. OpInv(q)
    BY <1>1 DEF OpsInv
  <2>2. op[q] # Idle
    BY DEF Idle
  <2>3. op[q] \in PutOps => op[q].kind = "put"
    BY DEF PutOps
  <2>4. op[q] \in GetOps => op[q].kind = "get"
    BY DEF GetOps
  <2> QED  BY <2>1, <2>2, <2>3, <2>4 DEF OpInv
<1> DEFINE k == op[q].k
           j == op[q].j
<1>3. /\ k \in SegKeys /\ k \in Areas /\ j \in Places /\ IsLayout(hdr[k], RecsAt(k))
      /\ RecsAt(k) \in Seq(RecConf) /\ j \in DOMAIN hdr[k]
  BY <1>1, <1>2, OpSees
<1>4. hdr[k][j].size \in Nat /\ hdr[k][j].rb \in {0, 1}
  BY <1>3 DEF IsLayout
<1>5. newest[k][j] \in Nat /\ begun[k][j] \in Nat /\ newest[k][j] <= begun[k][j]
  BY <1>1, <1>3 DEF CountInv
<1> QED  BY <1>2, <1>3, <1>4, <1>5

\* A put writes one cell, and no other.
LEMMA Written ==
  ASSUME Typed, ConfInv, RtInv, NEW p \in Procs, PutCell(p),
         NEW k, NEW j, NEW b, NEW n, NEW at,
         k = op[p].k, j = op[p].j, b = op[p].bank, n = op[p].put, at = op[p].at
  PROVE  /\ UNCHANGED <<hdr, begun, newest, reused>> /\ op[p].kind = "put"
         /\ op' = [op EXCEPT ![p].at = @ + 1]
         /\ at \in Nat /\ at + 1 \in CellsOf(k, j) /\ b \in {0, 1}
         /\ \A m \in SegKeys \ {k} : mem'[m] = mem[m]
         /\ \A m \in SegKeys : \A i \in DOMAIN hdr[m] : \A c \in {0, 1} : \A v \in CellsOf(m, i) :
              Has(m, i, c, v)' =
                IF m = k /\ i = j /\ c = b /\ v = at + 1 THEN n ELSE Has(m, i, c, v)
<1> DEFINE cells == Cells(hdr[k][j], j, b)
<1>1. /\ op[p].kind = "put" /\ at < Len(cells) /\ Write(k, cells[at + 1], n)
      /\ op' = [op EXCEPT ![p].at = @ + 1] /\ UNCHANGED <<segVars, begun, newest>>
  BY DEF PutCell
<1>2. /\ at \in Nat /\ b \in {0, 1} /\ k \in SegKeys /\ IsLayout(hdr[k], RecsAt(k))
      /\ RecsAt(k) \in Seq(RecConf) /\ j \in DOMAIN hdr[k] /\ hdr[k][j].size \in Nat
  BY <1>1, OpFacts DEF PutOps
<1>3. Len(cells) = hdr[k][j].size + 2
  BY <1>2, CellsAre
<1>4. at + 1 \in CellsOf(k, j)
  <2> DEFINE s == hdr[k][j].size
  <2>1. s \in Nat /\ at < s + 2
    BY <1>1, <1>2, <1>3
  <2> HIDE DEF s
  <2>2. at + 1 \in 1 .. s + 2
    BY <1>2, <2>1
  <2> QED  BY <2>2 DEF CellsOf, s
<1>5. UNCHANGED <<hdr, begun, newest, reused>>
  BY <1>1 DEF segVars
<1> DEFINE a == cells[at + 1]
<1> HIDE DEF cells
<1>6. /\ mem' = [mem EXCEPT ![k] = [x \in DOMAIN mem[k] \union {a} |->
                                      IF x = a THEN n ELSE mem[k][x]]]
      /\ DOMAIN mem = SegKeys
  BY <1>1 DEF Write, RtInv, MemInv
<1> HIDE DEF a
<1>7. \A m \in SegKeys \ {k} : mem'[m] = mem[m]
  BY <1>6
<1>8. \A x : At(k, x)' = IF x = a THEN n ELSE At(k, x)
  <2>1. mem'[k] = [x \in DOMAIN mem[k] \union {a} |-> IF x = a THEN n ELSE mem[k][x]]
    BY <1>2, <1>6
  <2> QED  BY <2>1 DEF At
<1>9. ASSUME NEW m \in SegKeys, NEW i \in DOMAIN hdr[m], NEW c \in {0, 1}, NEW v \in CellsOf(m, i)
      PROVE  Has(m, i, c, v)' =
               IF m = k /\ i = j /\ c = b /\ v = at + 1 THEN n ELSE Has(m, i, c, v)
  <2>1. CASE m # k
    <3>1. Has(m, i, c, v)' = Has(m, i, c, v)
      BY <1>5, <1>7, <2>1 DEF Has, At
    <3> QED  BY <2>1, <3>1
  <2>2. CASE m = k
    <3>1. PICK x : x = Cells(hdr[k][i], i, c)[v]
      OBVIOUS
    <3>2. Has(m, i, c, v)' = IF x = a THEN n ELSE At(k, x)
      <4>1. Has(m, i, c, v)' = At(k, x)'
        BY <1>5, <2>2, <3>1 DEF Has
      <4> QED  BY <1>8, <4>1
    <3>3. Has(m, i, c, v) = At(k, x)
      BY <2>2, <3>1 DEF Has
    <3>4. x = a => i = j /\ c = b /\ v = at + 1
      <4>1. v \in 1 .. hdr[k][i].size + 2 /\ at + 1 \in 1 .. hdr[k][j].size + 2
            /\ i \in DOMAIN hdr[k]
        BY <1>4, <2>2 DEF CellsOf
      <4>2. a = Cells(hdr[k][j], j, b)[at + 1]
        BY DEF a, cells
      <4>3. PICK h, recs, w : h = hdr[k] /\ recs = RecsAt(k) /\ w = at + 1
        OBVIOUS
      <4>4. /\ recs \in Seq(RecConf) /\ IsLayout(h, recs) /\ j \in DOMAIN h /\ b \in {0, 1}
            /\ w \in 1 .. h[j].size + 2 /\ i \in DOMAIN h /\ c \in {0, 1}
            /\ v \in 1 .. h[i].size + 2
        BY <1>2, <4>1, <4>3
      <4>5. ASSUME x = a PROVE j = i /\ b = c /\ w = v
        <5>1. Cells(h[j], j, b)[w] = Cells(h[i], i, c)[v]
          BY <3>1, <4>2, <4>3, <4>5
        <5> QED  BY ONLY <4>4, <5>1, CellsApart
      <4> QED  BY <4>3, <4>5
    <3>5. i = j /\ c = b /\ v = at + 1 => x = a
      BY <3>1 DEF a, cells
    <3> QED  BY <2>2, <3>2, <3>3, <3>4, <3>5
  <2> QED  BY <2>1, <2>2
<1> QED  BY <1>1, <1>2, <1>4, <1>5, <1>7, <1>9

LEMMA RecentPutCell ==
  ASSUME Typed, ConfInv, RtInv, RecentInv, NEW p \in Procs, PutCell(p)
  PROVE  RecentInv'
<1>0. PICK k, j, b, n, at : /\ k = op[p].k /\ j = op[p].j /\ b = op[p].bank
                            /\ n = op[p].put /\ at = op[p].at
  OBVIOUS
<1>1. /\ UNCHANGED <<hdr, begun, newest, reused>> /\ op[p].kind = "put"
      /\ op' = [op EXCEPT ![p].at = @ + 1]
      /\ at \in Nat /\ at + 1 \in CellsOf(k, j) /\ b \in {0, 1}
      /\ \A m \in SegKeys \ {k} : mem'[m] = mem[m]
      /\ \A m \in SegKeys : \A i \in DOMAIN hdr[m] : \A c \in {0, 1} : \A v \in CellsOf(m, i) :
           Has(m, i, c, v)' = IF m = k /\ i = j /\ c = b /\ v = at + 1 THEN n ELSE Has(m, i, c, v)
  BY <1>0, Written
<1>2. /\ op[p] \in PutOps /\ Owner(p, k, j) /\ k \in SegKeys /\ j \in DOMAIN hdr[k]
      /\ IsLayout(hdr[k], RecsAt(k)) /\ hdr[k][j].size \in Nat /\ n \in 1 .. begun[k][j]
      /\ begun[k][j] \in Nat /\ newest[k][j] \in Nat /\ hdr[k][j].rb \in {0, 1}
  BY <1>0, <1>1, OpFacts
<1>3. \A m, i : CellsOf(m, i)' = CellsOf(m, i)
  BY <1>1 DEF CellsOf
<1>4. BlankInv'
  <2> SUFFICES ASSUME NEW m \in SegKeys, DOMAIN hdr[m] = {}
               PROVE  mem'[m] = <<>> /\ begun[m] = Nothing /\ newest[m] = Nothing
    BY <1>1 DEF BlankInv
  <2>1. m # k
    BY <1>2
  <2> QED  BY <1>1, <2>1 DEF RecentInv, BlankInv
<1>5. ASSUME ~reused' PROVE RecInv' /\ \A q \in Procs : PutRec(q)' /\ GetRec(q)'
  <2>1. RecInv /\ \A q \in Procs : PutRec(q) /\ GetRec(q)
    BY <1>1, <1>5 DEF RecentInv
  <2>2. /\ b = 1 - hdr[k][j].rb /\ n = begun[k][j] /\ newest[k][j] < n /\ at <= hdr[k][j].size + 2
        /\ \A w \in 1 .. at : Has(k, j, b, w) = n
    BY <1>0, <1>1, <2>1 DEF PutRec
  <2>3. b # hdr[k][j].rb /\ n \in Nat
    <3>1. b # hdr[k][j].rb
      BY <1>2, <2>2
    <3> QED  BY <1>2, <2>2, <3>1
  <2>4. RecInv'
    <3> SUFFICES ASSUME NEW m \in SegKeys, NEW i \in DOMAIN hdr[m], NEW v \in CellsOf(m, i)
                 PROVE  Has(m, i, hdr[m][i].rb, v)' = newest[m][i]
      BY <1>1, <1>3 DEF RecInv
    <3>1. PICK c : c = hdr[m][i].rb
      OBVIOUS
    <3>2. c \in {0, 1}
      <4>1. IsLayout(hdr[m], RecsAt(m))
        <5>1. hdr[m] # <<>>
          OBVIOUS
        <5> QED  BY <5>1 DEF RtInv, HdrInv
      <4> QED  BY <3>1, <4>1 DEF IsLayout
    <3>3. Has(m, i, c, v)' = Has(m, i, c, v)
      BY <1>1, <2>3, <3>1, <3>2
    <3>4. Has(m, i, c, v) = newest[m][i]
      BY <2>1, <3>1 DEF RecInv
    <3>5. hdr'[m][i].rb = c
      BY <1>1, <3>1
    <3> QED  BY <3>3, <3>4, <3>5
  <2>5. PutRec(p)' /\ GetRec(p)'
    <3>1. op'[p] = [op[p] EXCEPT !.at = at + 1]
      BY <1>0, <1>1 DEF RtInv, OpsInv
    <3>2. /\ op'[p].kind = "put" /\ op'[p].k = k /\ op'[p].j = j /\ op'[p].bank = b
          /\ op'[p].put = n /\ op'[p].at = at + 1
      BY <1>0, <1>2, <3>1 DEF PutOps
    <3>3. at + 1 <= hdr[k][j].size + 2 /\ 1 .. at + 1 = 1 .. at \union {at + 1}
      BY <1>1, <1>2 DEF CellsOf
    <3>4. \A w \in 1 .. at + 1 : w \in CellsOf(k, j)
      BY <1>1, <1>2, <3>3 DEF CellsOf
    <3>5. \A w \in 1 .. at + 1 : Has(k, j, b, w)' = n
      <4> SUFFICES ASSUME NEW w \in 1 .. at + 1 PROVE Has(k, j, b, w)' = n
        OBVIOUS
      <4>1. Has(k, j, b, w)' = IF w = at + 1 THEN n ELSE Has(k, j, b, w)
        BY <1>1, <1>2, <3>4
      <4>2. w # at + 1 => w \in 1 .. at
        BY <1>1
      <4> QED  BY <2>2, <4>1, <4>2
    <3> QED  BY <1>1, <2>2, <3>2, <3>3, <3>5 DEF PutRec, GetRec
  <2>6. ASSUME NEW q \in Procs \ {p} PROVE PutRec(q)' /\ GetRec(q)'
    <3>1. op'[q] = op[q]
      BY <1>1 DEF RtInv, OpsInv
    <3>2. PICK l, i : l = op[q].k /\ i = op[q].j
      OBVIOUS
    <3>3. CASE op[q].kind = "put"
      <4>1. /\ op[q] \in PutOps /\ Owner(q, l, i) /\ l \in SegKeys /\ i \in DOMAIN hdr[l]
            /\ hdr[l][i].size \in Nat
        BY <3>2, <3>3, OpFacts
      <4>2. ~(l = k /\ i = j)
        BY <1>2, <4>1, OwnerAlone
      <4>3. op[q].at <= hdr[l][i].size + 2 /\ op[q].at \in Nat /\ op[q].bank \in {0, 1}
        BY <2>1, <3>2, <3>3, <4>1 DEF PutRec, PutOps
      <4>4. \A w \in 1 .. op[q].at : w \in CellsOf(l, i)
        BY <4>1, <4>3 DEF CellsOf
      <4>6. PutRec(q)'
        <5>1. /\ q \in Procs /\ PutRec(q) /\ op'[q] = op[q] /\ l = op[q].k /\ i = op[q].j
          BY <2>1, <3>1, <3>2
        <5>2. /\ hdr'[l][i].size = hdr[l][i].size /\ hdr'[l][i].rb = hdr[l][i].rb
              /\ begun'[l][i] = begun[l][i] /\ newest'[l][i] = newest[l][i]
          BY <1>1
        <5>3. PICK c, m : c = op[q].bank /\ m = op[q].at
          OBVIOUS
        <5>4. \A w \in 1 .. m : Has(l, i, c, w)' = Has(l, i, c, w)
          BY <1>1, <4>1, <4>2, <4>3, <4>4, <5>3
        <5>5. KnownCellsStay(l, i, c, m)
          BY ONLY <5>2, <5>4 DEF KnownCellsStay
        <5> QED  BY ONLY <5>1, <5>3, <5>5, PutKept
      <4> QED  BY <3>1, <3>3, <4>6 DEF GetRec
    <3>4. CASE op[q].kind = "get"
      <4>1. /\ op[q] \in GetOps /\ l \in SegKeys /\ i \in DOMAIN hdr[l]
            /\ hdr[l][i].size \in Nat /\ newest[l][i] \in Nat /\ begun[l][i] \in Nat
        BY <3>2, <3>4, OpFacts
      <4>2. ASSUME NEW c \in {0, 1}, NEW w \in CellsOf(l, i)
            PROVE  /\ Has(l, i, c, w) \in Nat
                   /\ \/ Has(l, i, c, w)' = Has(l, i, c, w)
                      \/ /\ Has(l, i, c, w)' \in Nat /\ newest[l][i] < Has(l, i, c, w)'
                         /\ Has(l, i, c, w)' <= begun'[l][i] /\ c # hdr[l][i].rb
        <5>1. Has(l, i, c, w) \in Nat
          BY <4>1, HasTyped
        <5>2. CASE l = k /\ i = j /\ c = b /\ w = at + 1
          <6>1. Has(l, i, c, w)' = n
            BY <1>1, <4>1, <5>2
          <6>2. newest[l][i] < n /\ n <= begun'[l][i] /\ c # hdr[l][i].rb
            BY <1>1, <1>2, <2>2, <2>3, <5>2
          <6> QED  BY <2>3, <5>1, <6>1, <6>2
        <5>3. CASE ~(l = k /\ i = j /\ c = b /\ w = at + 1)
          BY <1>1, <4>1, <5>1, <5>3
        <5> QED  BY <5>2, <5>3
      <4>3. newest[l][i] <= newest'[l][i] /\ begun[l][i] <= begun'[l][i]
        BY <1>1, <4>1
      <4>4. GetRec(q)'
        <5>1. /\ q \in Procs /\ GetRec(q) /\ op'[q] = op[q] /\ op[q] \in GetOps
              /\ l = op[q].k /\ i = op[q].j
          BY <2>1, <3>1, <3>2, <4>1
        <5>2. /\ hdr[l][i].size \in Nat /\ hdr'[l][i].size = hdr[l][i].size
              /\ newest[l][i] \in Nat /\ newest'[l][i] \in Nat
              /\ newest[l][i] <= newest'[l][i]
              /\ begun[l][i] \in Nat /\ begun'[l][i] \in Nat
              /\ begun[l][i] <= begun'[l][i]
              /\ hdr'[l][i].rb = hdr[l][i].rb \/ newest[l][i] < newest'[l][i]
          BY <1>1, <4>1, <4>3
        <5>3. \A c \in {0, 1} : \A w \in CellsOf(l, i) :
                /\ Has(l, i, c, w) \in Nat
                /\ \/ Has(l, i, c, w)' = Has(l, i, c, w)
                   \/ /\ Has(l, i, c, w)' \in Nat /\ newest[l][i] < Has(l, i, c, w)'
                      /\ Has(l, i, c, w)' <= begun'[l][i] /\ c # hdr[l][i].rb
          BY <4>2
        <5>4. Grows(l, i)
          BY ONLY <5>2, <5>3 DEF Grows
        <5> QED  BY ONLY <5>1, <5>4, GetKept
      <4> QED  BY <3>1, <3>4, <4>4 DEF PutRec
    <3>5. CASE op[q].kind \notin {"put", "get"}
      BY <3>1, <3>5 DEF PutRec, GetRec
    <3> QED  BY <3>3, <3>4, <3>5
  <2> QED  BY <2>4, <2>5, <2>6
<1> QED  BY <1>4, <1>5 DEF RecentInv

LEMMA RecentPutIn ==
  ASSUME Typed, ConfInv, RtInv, RtInv', RecentInv, NEW p \in Procs, NEW a \in Agents, NEW i \in Ids,
         <<p, a, i>> \in Puts, PutIn(p, a, i)
  PROVE  RecentInv'
<1>0. PICK k, j : k = KeyOf(a, i) /\ j = PlaceIn(a, i)
  OBVIOUS
<1> DEFINE new == [kind |-> "put", k |-> k, j |-> j, at |-> 0,
                   bank |-> WriteBank(hdr[k][j]), put |-> begun[k][j] + 1]
<1>1. /\ pc[p] = "ready" /\ Found(a, i) /\ op' = [op EXCEPT ![p] = new]
      /\ begun' = [begun EXCEPT ![k][j] = @ + 1]
      /\ UNCHANGED <<hdr, reused, mem, newest, file>>
  BY <1>0 DEF PutIn, segVars
<1>2. Configured /\ def.lut = Lookup(Conf) /\ \A n \in Areas : IsLayout(hdr[n], RecsAt(n))
  BY <1>1 DEF ConfInv, RtInv, HdrInv, Up
<1>3. /\ k \in Areas /\ j \in 1 .. Len(RecsAt(k)) /\ RecsAt(k)[j].id = i
      /\ a = IF k = Len(Conf) + 1 THEN Self ELSE k - 1
  BY <1>0, <1>1, <1>2, FoundAt
<1>4. Owner(p, k, j)
  BY <1>3 DEF Owner
<1>5. k \in SegKeys /\ j \in Places /\ j \in DOMAIN hdr[k] /\ hdr[k][j].rb \in {0, 1}
      /\ hdr[k][j].size \in Nat
  <2>1. k \in SegKeys /\ Len(RecsAt(k)) \in 0 .. MaxRecs /\ MaxRecs \in Nat
    BY <1>3, ConfFacts, SegmentsConstants
  <2>2. j \in DOMAIN hdr[k]
    BY <1>2, <1>3 DEF IsLayout
  <2> QED  BY <1>2, <1>3, <2>1, <2>2 DEF Places, IsLayout
<1>6. /\ begun[k][j] \in Nat /\ newest[k][j] \in Nat /\ newest[k][j] <= begun[k][j]
      /\ begun'[k][j] = begun[k][j] + 1
      /\ \A m \in SegKeys : \A n \in Places : begun'[m][n] = begun[m][n] \/ (m = k /\ n = j)
      /\ \A m \in SegKeys \ {k} : begun'[m] = begun[m]
  BY <1>1, <1>5 DEF RtInv, CountInv
<1>7. /\ \A m, n, b, w : Has(m, n, b, w)' = Has(m, n, b, w)
      /\ \A m, n : CellsOf(m, n)' = CellsOf(m, n)
  BY <1>1 DEF Has, At, CellsOf
<1> HIDE DEF new
<1>8. BlankInv'
  <2> SUFFICES ASSUME NEW m \in SegKeys, DOMAIN hdr[m] = {}
               PROVE  mem[m] = <<>> /\ begun'[m] = Nothing /\ newest[m] = Nothing
    BY <1>1 DEF BlankInv
  <2>1. m # k
    BY <1>5
  <2> QED  BY <1>6, <2>1 DEF RecentInv, BlankInv
<1>9. ASSUME ~reused' PROVE RecInv' /\ \A q \in Procs : PutRec(q)' /\ GetRec(q)'
  <2>1. RecInv /\ \A q \in Procs : PutRec(q) /\ GetRec(q)
    BY <1>1, <1>9 DEF RecentInv
  <2>2. RecInv'
    BY <1>1, <1>7, <2>1 DEF RecInv
  <2>3. PutRec(p)' /\ GetRec(p)'
    <3>1. op'[p] = new
      BY <1>1 DEF RtInv, OpsInv
    <3>2. /\ new.kind = "put" /\ new.k = k /\ new.j = j /\ new.at = 0
          /\ new.bank = WriteBank(hdr[k][j]) /\ new.put = begun[k][j] + 1
      BY DEF new
    <3>3. WriteBank(hdr[k][j]) = 1 - hdr[k][j].rb
      BY <1>5 DEF WriteBank
    <3>4. newest[k][j] < begun[k][j] + 1 /\ 0 <= hdr[k][j].size + 2 /\ 1 .. 0 = {}
      BY <1>5, <1>6
    <3> QED  BY <1>1, <1>6, <3>1, <3>2, <3>3, <3>4 DEF PutRec, GetRec
  <2>4. ASSUME NEW q \in Procs \ {p} PROVE PutRec(q)' /\ GetRec(q)'
    <3>1. op'[q] = op[q]
      BY <1>1 DEF RtInv, OpsInv
    <3>2. PICK l, n : l = op[q].k /\ n = op[q].j
      OBVIOUS
    <3>3. CASE op[q].kind = "put"
      <4>1. Owner(q, l, n) /\ l \in SegKeys /\ n \in Places
        BY <3>2, <3>3, OpFacts
      <4>2. ~(l = k /\ n = j)
        BY <1>4, <4>1, OwnerAlone
      <4>3. begun'[l][n] = begun[l][n]
        BY <1>6, <4>1, <4>2
      <4>4. PutRec(q)'
        <5>1. /\ q \in Procs /\ PutRec(q) /\ op'[q] = op[q] /\ l = op[q].k /\ n = op[q].j
          BY <2>1, <3>1, <3>2
        <5>2. /\ hdr'[l][n].size = hdr[l][n].size /\ hdr'[l][n].rb = hdr[l][n].rb
              /\ begun'[l][n] = begun[l][n] /\ newest'[l][n] = newest[l][n]
          BY <1>1, <4>3
        <5>3. PICK c, m : c = op[q].bank /\ m = op[q].at
          OBVIOUS
        <5>4. \A w \in 1 .. m : Has(l, n, c, w)' = Has(l, n, c, w)
          BY <5>3, <1>7
        <5>5. KnownCellsStay(l, n, c, m)
          BY ONLY <5>2, <5>4 DEF KnownCellsStay
        <5> QED  BY ONLY <5>1, <5>3, <5>5, PutKept
      <4> QED  BY <3>1, <3>3, <4>4 DEF GetRec
    <3>4. CASE op[q].kind = "get"
      <4>1. /\ op[q] \in GetOps /\ l \in SegKeys /\ n \in Places
            /\ hdr[l][n].size \in Nat /\ newest[l][n] \in Nat /\ begun[l][n] \in Nat
        BY <3>2, <3>4, OpFacts
      <4>2. begun'[l][n] \in Nat /\ begun[l][n] <= begun'[l][n] /\ newest[l][n] <= newest'[l][n]
        BY <1>1, <1>6, <4>1
      <4>3. \A b, w : Has(l, n, b, w) \in Nat
        BY <4>1, HasTyped
      <4>4. GetRec(q)'
        <5>1. /\ q \in Procs /\ GetRec(q) /\ op'[q] = op[q] /\ op[q] \in GetOps
              /\ l = op[q].k /\ n = op[q].j
          BY <2>1, <3>1, <3>2, <4>1
        <5>2. /\ hdr[l][n].size \in Nat /\ hdr'[l][n].size = hdr[l][n].size
              /\ newest[l][n] \in Nat /\ newest'[l][n] \in Nat
              /\ newest[l][n] <= newest'[l][n]
              /\ begun[l][n] \in Nat /\ begun'[l][n] \in Nat
              /\ begun[l][n] <= begun'[l][n]
              /\ hdr'[l][n].rb = hdr[l][n].rb \/ newest[l][n] < newest'[l][n]
          BY <1>1, <4>1, <4>2
        <5>3. \A c \in {0, 1} : \A w \in CellsOf(l, n) :
                /\ Has(l, n, c, w) \in Nat
                /\ \/ Has(l, n, c, w)' = Has(l, n, c, w)
                   \/ /\ Has(l, n, c, w)' \in Nat /\ newest[l][n] < Has(l, n, c, w)'
                      /\ Has(l, n, c, w)' <= begun'[l][n] /\ c # hdr[l][n].rb
          BY <1>7, <4>3
        <5>4. Grows(l, n)
          BY ONLY <5>2, <5>3 DEF Grows
        <5> QED  BY ONLY <5>1, <5>4, GetKept
      <4> QED  BY <3>1, <3>4, <4>4 DEF PutRec
    <3>5. CASE op[q].kind \notin {"put", "get"}
      BY <3>1, <3>5 DEF PutRec, GetRec
    <3> QED  BY <3>3, <3>4, <3>5
  <2> QED  BY <2>2, <2>3, <2>4
<1> QED  BY <1>8, <1>9 DEF RecentInv

LEMMA RecentPutEnd ==
  ASSUME Typed, ConfInv, RtInv, RecentInv, NEW p \in Procs, PutEnd(p)
  PROVE  RecentInv'
<1>0. PICK k, j, b, n : k = op[p].k /\ j = op[p].j /\ b = op[p].bank /\ n = op[p].put
  OBVIOUS
<1>1. /\ op[p].kind = "put" /\ op[p].at = Len(Cells(hdr[k][j], j, b))
      /\ hdr' = [hdr EXCEPT ![k][j].rb = b] /\ newest' = [newest EXCEPT ![k][j] = n]
      /\ op' = [op EXCEPT ![p] = Idle]
      /\ UNCHANGED <<mem, begun, reused>>
  BY <1>0 DEF PutEnd
<1>2. /\ op[p] \in PutOps /\ Owner(p, k, j) /\ k \in SegKeys /\ j \in Places /\ j \in DOMAIN hdr[k]
      /\ IsLayout(hdr[k], RecsAt(k)) /\ RecsAt(k) \in Seq(RecConf) /\ hdr[k][j].size \in Nat
      /\ n \in 1 .. begun[k][j] /\ begun[k][j] \in Nat /\ newest[k][j] \in Nat
      /\ hdr[k][j].rb \in {0, 1} /\ b \in {0, 1}
  BY <1>0, <1>1, OpFacts DEF PutOps
<1>3. op[p].at = hdr[k][j].size + 2
  BY <1>1, <1>2, CellsAre
<1>4. /\ \A m \in SegKeys : DOMAIN hdr'[m] = DOMAIN hdr[m]
      /\ \A m \in SegKeys : \A i \in DOMAIN hdr[m] :
           /\ hdr'[m][i].size = hdr[m][i].size /\ hdr'[m][i].offset = hdr[m][i].offset
           /\ hdr'[m][i].rb = hdr[m][i].rb \/ (m = k /\ i = j)
      /\ hdr'[k][j].rb = b
  <2>1. PICK g, recs : g = hdr[k] /\ recs = RecsAt(k)
    OBVIOUS
  <2>2. IsLayout(g, recs) /\ j \in DOMAIN g /\ b \in {0, 1}
    BY <1>2, <2>1
  <2>3. PICK x : x = [g EXCEPT ![j].rb = b]
    OBVIOUS
  <2>4. /\ DOMAIN x = DOMAIN g /\ x[j].rb = b
        /\ \A i \in DOMAIN g : x[i].size = g[i].size /\ x[i].offset = g[i].offset
                               /\ (i # j => x[i] = g[i])
    BY ONLY <2>2, <2>3, TurnedLayout
  <2>5. hdr'[k] = x /\ \A m \in SegKeys \ {k} : hdr'[m] = hdr[m]
    BY <1>1, <1>2, <2>1, <2>3 DEF RtInv, HdrInv
  <2> QED  BY <2>1, <2>4, <2>5
<1>5. /\ newest'[k][j] = n
      /\ \A m \in SegKeys : \A i \in Places : newest'[m][i] = newest[m][i] \/ (m = k /\ i = j)
      /\ \A m \in SegKeys \ {k} : newest'[m] = newest[m]
  BY <1>1, <1>2 DEF RtInv, CountInv
<1>6. ASSUME NEW m \in SegKeys, NEW i \in DOMAIN hdr[m]
      PROVE  /\ \A c, w : Has(m, i, c, w)' = Has(m, i, c, w)
             /\ CellsOf(m, i)' = CellsOf(m, i)
  BY <1>1, <1>4, HasStays
<1>7. BlankInv'
  <2> SUFFICES ASSUME NEW m \in SegKeys, DOMAIN hdr[m] = {}
               PROVE  mem[m] = <<>> /\ begun[m] = Nothing /\ newest'[m] = Nothing
    BY <1>1, <1>4 DEF BlankInv
  <2>1. m # k
    BY <1>2
  <2> QED  BY <1>5, <2>1 DEF RecentInv, BlankInv
<1>8. ASSUME ~reused' PROVE RecInv' /\ \A q \in Procs : PutRec(q)' /\ GetRec(q)'
  <2>1. RecInv /\ \A q \in Procs : PutRec(q) /\ GetRec(q)
    BY <1>1, <1>8 DEF RecentInv
  <2>2. /\ n = begun[k][j] /\ newest[k][j] < n
        /\ \A w \in 1 .. hdr[k][j].size + 2 : Has(k, j, b, w) = n
    BY <1>0, <1>1, <1>3, <2>1 DEF PutRec
  <2>3. RecInv'
    <3> SUFFICES ASSUME NEW m \in SegKeys, NEW i \in DOMAIN hdr[m], NEW w \in CellsOf(m, i)
                 PROVE  Has(m, i, hdr[m][i].rb, w)' = newest'[m][i]
      BY <1>4, <1>6 DEF RecInv
    <3>1. PICK c : c = hdr'[m][i].rb
      OBVIOUS
    <3>2. Has(m, i, c, w)' = Has(m, i, c, w)
      BY <1>6
    <3>3. Has(m, i, c, w) = newest'[m][i]
      <4>1. CASE m = k /\ i = j
        BY <1>4, <1>5, <2>2, <3>1, <4>1 DEF CellsOf
      <4>2. CASE ~(m = k /\ i = j)
        <5>1. i \in Places
          <6>1. hdr[m] # <<>>
            OBVIOUS
          <6>2. m \in Areas /\ IsLayout(hdr[m], RecsAt(m))
            BY <6>1 DEF RtInv, HdrInv
          <6>3. i \in 1 .. Len(RecsAt(m)) /\ Len(RecsAt(m)) \in 0 .. MaxRecs /\ MaxRecs \in Nat
            BY <6>2, ConfFacts, SegmentsConstants DEF IsLayout
          <6> QED  BY <6>3 DEF Places
        <5>2. newest'[m][i] = newest[m][i] /\ c = hdr[m][i].rb
          BY <1>4, <1>5, <3>1, <4>2, <5>1
        <5> QED  BY <2>1, <5>2 DEF RecInv
      <4> QED  BY <4>1, <4>2
    <3> QED  BY <3>1, <3>2, <3>3
  <2>4. PutRec(p)' /\ GetRec(p)'
    <3>1. op'[p] = Idle
      BY <1>1 DEF RtInv, OpsInv
    <3> QED  BY <3>1 DEF PutRec, GetRec, Idle
  <2>5. ASSUME NEW q \in Procs \ {p} PROVE PutRec(q)' /\ GetRec(q)'
    <3>1. op'[q] = op[q]
      BY <1>1 DEF RtInv, OpsInv
    <3>2. PICK l, i : l = op[q].k /\ i = op[q].j
      OBVIOUS
    <3>3. CASE op[q].kind = "put"
      <4>1. Owner(q, l, i) /\ l \in SegKeys /\ i \in Places /\ i \in DOMAIN hdr[l]
        BY <3>2, <3>3, OpFacts
      <4>2. ~(l = k /\ i = j)
        BY <1>2, <4>1, OwnerAlone
      <4>3. /\ newest'[l][i] = newest[l][i] /\ hdr'[l][i].rb = hdr[l][i].rb
            /\ hdr'[l][i].size = hdr[l][i].size
        BY <1>4, <1>5, <4>1, <4>2
      <4>5. begun'[l][i] = begun[l][i]
        BY <1>1
      <4>6. PutRec(q)'
        <5>1. /\ q \in Procs /\ PutRec(q) /\ op'[q] = op[q] /\ l = op[q].k /\ i = op[q].j
          BY <2>1, <3>1, <3>2
        <5>2. /\ hdr'[l][i].size = hdr[l][i].size /\ hdr'[l][i].rb = hdr[l][i].rb
              /\ begun'[l][i] = begun[l][i] /\ newest'[l][i] = newest[l][i]
          BY <4>3, <4>5
        <5>3. PICK c, m : c = op[q].bank /\ m = op[q].at
          OBVIOUS
        <5>4. \A w \in 1 .. m : Has(l, i, c, w)' = Has(l, i, c, w)
          BY <1>6, <4>1, <5>3
        <5>5. KnownCellsStay(l, i, c, m)
          BY ONLY <5>2, <5>4 DEF KnownCellsStay
        <5> QED  BY ONLY <5>1, <5>3, <5>5, PutKept
      <4> QED  BY <3>1, <3>3, <4>6 DEF GetRec
    <3>4. CASE op[q].kind = "get"
      <4>1. /\ op[q] \in GetOps /\ l \in SegKeys /\ i \in Places /\ i \in DOMAIN hdr[l]
            /\ hdr[l][i].size \in Nat /\ newest[l][i] \in Nat /\ begun[l][i] \in Nat
        BY <3>2, <3>4, OpFacts
      <4>2. /\ newest'[l][i] \in Nat /\ newest[l][i] <= newest'[l][i]
            /\ hdr'[l][i].rb = hdr[l][i].rb \/ newest[l][i] < newest'[l][i]
            /\ hdr'[l][i].size = hdr[l][i].size
            /\ begun'[l][i] \in Nat /\ begun[l][i] <= begun'[l][i]
        <5>1. begun'[l][i] \in Nat /\ begun[l][i] <= begun'[l][i]
          BY <1>1, <4>1
        <5>2. CASE l = k /\ i = j
          BY <1>2, <1>4, <1>5, <2>2, <4>1, <5>1, <5>2
        <5>3. CASE ~(l = k /\ i = j)
          BY <1>4, <1>5, <4>1, <5>1, <5>3
        <5> QED  BY <5>2, <5>3
      <4>3. \A c, w : Has(l, i, c, w) \in Nat
        BY <4>1, HasTyped
      <4>4. \A c, w : Has(l, i, c, w)' = Has(l, i, c, w)
        BY <1>6, <4>1
      <4>5. GetRec(q)'
        <5>1. /\ q \in Procs /\ GetRec(q) /\ op'[q] = op[q] /\ op[q] \in GetOps
              /\ l = op[q].k /\ i = op[q].j
          BY <2>1, <3>1, <3>2, <4>1
        <5>2. /\ hdr[l][i].size \in Nat /\ hdr'[l][i].size = hdr[l][i].size
              /\ newest[l][i] \in Nat /\ newest'[l][i] \in Nat
              /\ newest[l][i] <= newest'[l][i]
              /\ begun[l][i] \in Nat /\ begun'[l][i] \in Nat
              /\ begun[l][i] <= begun'[l][i]
              /\ hdr'[l][i].rb = hdr[l][i].rb \/ newest[l][i] < newest'[l][i]
          BY <4>1, <4>2
        <5>3. \A c \in {0, 1} : \A w \in CellsOf(l, i) :
                /\ Has(l, i, c, w) \in Nat
                /\ \/ Has(l, i, c, w)' = Has(l, i, c, w)
                   \/ /\ Has(l, i, c, w)' \in Nat /\ newest[l][i] < Has(l, i, c, w)'
                      /\ Has(l, i, c, w)' <= begun'[l][i] /\ c # hdr[l][i].rb
          BY <4>3, <4>4
        <5>4. Grows(l, i)
          BY ONLY <5>2, <5>3 DEF Grows
        <5> QED  BY ONLY <5>1, <5>4, GetKept
      <4> QED  BY <3>1, <3>4, <4>5 DEF PutRec
    <3>5. CASE op[q].kind \notin {"put", "get"}
      BY <3>1, <3>5 DEF PutRec, GetRec
    <3> QED  BY <3>3, <3>4, <3>5
  <2> QED  BY <2>3, <2>4, <2>5
<1> QED  BY <1>7, <1>8 DEF RecentInv

LEMMA RecentDBGet ==
  ASSUME Typed, ConfInv, RtInv, RecentInv, NEW p \in Procs, NEW a \in Agents, NEW i \in Ids,
         DBGet(p, a, i)
  PROVE  RecentInv'
<1>0. PICK k, j : k = KeyOf(a, i) /\ j = PlaceIn(a, i)
  OBVIOUS
<1> DEFINE new == [kind |-> "get", k |-> k, j |-> j, seen |-> <<>>,
                   bank |-> hdr[k][j].rb, first |-> newest[k][j]]
<1>1. /\ pc[p] = "ready" /\ Found(a, i) /\ op' = [op EXCEPT ![p] = new]
      /\ UNCHANGED <<hdr, reused, mem, begun, newest>>
  BY <1>0 DEF DBGet, segVars
<1>2. Configured /\ def.lut = Lookup(Conf) /\ \A n \in Areas : IsLayout(hdr[n], RecsAt(n))
  BY <1>1 DEF ConfInv, RtInv, HdrInv, Up
<1>3. k \in Areas /\ j \in 1 .. Len(RecsAt(k))
  BY <1>0, <1>1, <1>2, FoundAt
<1>4. k \in SegKeys /\ j \in DOMAIN hdr[k]
  BY <1>2, <1>3, ConfFacts DEF IsLayout
<1>5. newest[k][j] \in Nat
  <2>1. Len(RecsAt(k)) \in 0 .. MaxRecs /\ MaxRecs \in Nat
    BY <1>3, ConfFacts, SegmentsConstants
  <2>2. j \in Places
    BY <1>3, <2>1 DEF Places
  <2> QED  BY <1>4, <2>2 DEF RtInv, CountInv
<1>6. /\ \A m, n, b, w : Has(m, n, b, w)' = Has(m, n, b, w)
      /\ \A m, n : CellsOf(m, n)' = CellsOf(m, n)
  BY <1>1 DEF Has, At, CellsOf
<1>7. BlankInv'
  BY <1>1 DEF RecentInv, BlankInv
<1>8. ASSUME ~reused' PROVE RecInv' /\ \A q \in Procs : PutRec(q)' /\ GetRec(q)'
  <2>1. RecInv /\ \A q \in Procs : PutRec(q) /\ GetRec(q)
    BY <1>1, <1>8 DEF RecentInv
  <2>2. RecInv'
    BY <1>1, <1>6, <2>1 DEF RecInv
  <2>3. PutRec(p)' /\ GetRec(p)'
    <3>1. op'[p] = new
      BY <1>1 DEF RtInv, OpsInv
    <3>2. PICK f, rb : f = newest[k][j] /\ rb = hdr[k][j].rb
      OBVIOUS
    <3>3. /\ op'[p].kind = "get" /\ op'[p].k = k /\ op'[p].j = j /\ op'[p].seen = <<>>
          /\ op'[p].bank = rb /\ op'[p].first = f
      BY <3>1, <3>2
    <3>4. \A w \in CellsOf(k, j) : Has(k, j, rb, w)' = f
      BY <1>4, <1>6, <2>1, <3>2 DEF RecInv
    <3>5. f <= newest[k][j] /\ f <= f /\ ~(f > f) /\ 1 .. Len(<<>>) = {}
      BY <1>5, <3>2
    <3>6. GetRec(p)'
      BY <1>1, <1>6, <3>2, <3>3, <3>4, <3>5 DEF GetRec, Late
    <3> QED  BY <3>3, <3>6 DEF PutRec
  <2>4. ASSUME NEW q \in Procs \ {p} PROVE PutRec(q)' /\ GetRec(q)'
    <3>1. op'[q] = op[q]
      BY <1>1 DEF RtInv, OpsInv
    <3> QED  BY ZenonT(30), <1>1, <1>6, <2>1, <3>1 DEF PutRec, GetRec, Late
  <2> QED  BY <2>2, <2>3, <2>4
<1> QED  BY <1>7, <1>8 DEF RecentInv

LEMMA RecentGetCell ==
  ASSUME Typed, ConfInv, RtInv, RecentInv, NEW p \in Procs, GetCell(p)
  PROVE  RecentInv'
<1>0. PICK k, j, f, s : k = op[p].k /\ j = op[p].j /\ f = op[p].first /\ s = op[p].seen
  OBVIOUS
<1> DEFINE n == Len(s)
           size == hdr[k][j].size
<1>1. /\ op[p].kind = "get" /\ op[p] \in GetOps /\ UNCHANGED <<segVars, mem, begun, newest>>
  BY GetCellIs DEF GetCell
<1>2. PICK b \in NextBank(op[p]) :
        /\ b \in {0, 1} /\ n < size + 2
        /\ op'[p].k = k /\ op'[p].j = j /\ op'[p].first = f /\ op'[p].bank = b
        /\ op'[p].seen = Append(s, Has(k, j, b, n + 1)) /\ op'[p] \in GetOps
        /\ \A q \in Procs \ {p} : op'[q] = op[q]
  BY <1>0, GetCellIs DEF Has, RtInv, OpsInv
<1>3. UNCHANGED <<hdr, reused, mem, begun, newest>>
  BY <1>1 DEF segVars
<1>4. /\ k \in SegKeys /\ j \in DOMAIN hdr[k] /\ size \in Nat /\ newest[k][j] \in Nat
      /\ begun[k][j] \in Nat /\ f \in Nat /\ s \in Seq(Nat) /\ n \in Nat
      /\ op[p].bank \in {0, 1} /\ hdr[k][j].rb \in {0, 1}
  BY <1>0, <1>1, OpFacts DEF GetOps
<1>5. /\ \A m, i, c, w : Has(m, i, c, w)' = Has(m, i, c, w)
      /\ \A m, i : CellsOf(m, i)' = CellsOf(m, i)
  BY <1>3 DEF Has, At, CellsOf
<1>6. BlankInv'
  BY <1>3 DEF RecentInv, BlankInv
<1>7. ASSUME ~reused' PROVE RecInv' /\ \A q \in Procs : PutRec(q)' /\ GetRec(q)'
  <2>1. RecInv /\ \A q \in Procs : PutRec(q) /\ GetRec(q)
    BY <1>3, <1>7 DEF RecentInv
  <2>2. RecInv'
    BY <1>3, <1>5, <2>1 DEF RecInv
  <2>3. PICK o : o = op[p].bank
    OBVIOUS
  <2>4. /\ f <= newest[k][j]
        /\ \A w \in 1 .. n : f <= s[w]
        /\ \A w \in 1 .. n : w <= size /\ s[w] > f => f < newest[k][j] /\ f + 2 <= begun[k][j]
        /\ \A w \in CellsOf(k, j) : f <= Has(k, j, o, w)
        /\ n <= size =>
             /\ newest[k][j] = f => hdr[k][j].rb = o
             /\ \A w \in CellsOf(k, j) : Has(k, j, o, w) > f =>
                  f < newest[k][j] /\ f + 2 <= begun[k][j]
    BY <1>0, <1>1, <2>1, <2>3 DEF GetRec, Late
  <2>5. /\ n < size => b = o
        /\ b \in {o, hdr[k][j].rb}
    <3>1. NextBank(op[p]) = CASE n < size -> {o} [] n = size -> {hdr[k][j].rb}
                              [] n = size + 1 -> {o, hdr[k][j].rb} [] OTHER -> {}
      BY <1>0, <2>3 DEF NextBank
    <3> HIDE DEF n, size
    <3>2. CASE n < size
      <4>1. ~(n = size) /\ ~(n = size + 1)
        BY <1>4, <3>2
      <4> QED  BY <1>2, <3>1, <3>2, <4>1
    <3>3. CASE n = size
      <4>1. ~(n < size) /\ ~(n = size + 1)
        BY <1>4, <3>3
      <4> QED  BY <1>2, <3>1, <3>3, <4>1
    <3>4. CASE n = size + 1
      <4>1. ~(n < size) /\ ~(n = size)
        BY <1>4, <3>4
      <4> QED  BY <1>2, <3>1, <3>4, <4>1
    <3>5. CASE ~(n < size) /\ ~(n = size) /\ ~(n = size + 1)
      BY <1>2, <3>1, <3>5
    <3> QED  BY <3>2, <3>3, <3>4, <3>5
  <2>6. \A w \in CellsOf(k, j) : f <= Has(k, j, b, w)
    <3>1. \A w \in CellsOf(k, j) : Has(k, j, hdr[k][j].rb, w) = newest[k][j]
      BY <1>4, <2>1 DEF RecInv
    <3> QED  BY <2>4, <2>5, <3>1
  <2>7. PICK x \in Nat : x = Has(k, j, b, n + 1)
    BY <1>4, HasTyped
  <2>8. n + 1 \in CellsOf(k, j)
    <3>1. n + 1 \in 1 .. size + 2
      <4> HIDE DEF n, size
      <4> QED  BY <1>2, <1>4
    <3> QED  BY <3>1 DEF CellsOf
  <2>9. f <= x /\ (n + 1 <= size /\ x > f => f < newest[k][j] /\ f + 2 <= begun[k][j])
    <3>1. n + 1 <= size => n < size /\ n <= size
      <4> HIDE DEF n, size
      <4> QED  BY <1>4
    <3> QED  BY <2>4, <2>5, <2>6, <2>7, <2>8, <3>1
  <2>10. PICK t : t = Append(s, x)
    OBVIOUS
  <2>11. /\ Len(t) = n + 1 /\ t[n + 1] = x /\ \A w \in 1 .. n : t[w] = s[w]
         /\ \A w \in 1 .. n + 1 : w = n + 1 \/ w \in 1 .. n
    BY <1>4, <2>7, <2>10
  <2>12. /\ \A w \in 1 .. Len(t) : f <= t[w]
         /\ \A w \in 1 .. Len(t) : w <= size /\ t[w] > f => f < newest[k][j] /\ f + 2 <= begun[k][j]
    <3> HIDE DEF n, size
    <3> QED  BY <2>4, <2>9, <2>11
  <2>13. Len(t) <= size =>
           /\ newest[k][j] = f => hdr[k][j].rb = b
           /\ \A w \in CellsOf(k, j) : Has(k, j, b, w) > f =>
                f < newest[k][j] /\ f + 2 <= begun[k][j]
    <3>1. Len(t) <= size => n < size /\ n <= size
      <4> HIDE DEF n, size
      <4> QED  BY <1>4, <2>11
    <3> QED  BY <2>4, <2>5, <3>1
  <2>14. GetRec(p)' /\ PutRec(p)'
    <3>1. op'[p].kind = "get"
      BY <1>2 DEF GetOps
    <3>2. op'[p].k = k /\ op'[p].j = j /\ op'[p].first = f /\ op'[p].bank = b /\ op'[p].seen = t
      BY <1>2, <2>7, <2>10
    <3> HIDE DEF n
    <3> QED  BY <1>3, <1>5, <2>4, <2>6, <2>12, <2>13, <3>1, <3>2 DEF GetRec, PutRec, Late
  <2>15. ASSUME NEW q \in Procs \ {p} PROVE PutRec(q)' /\ GetRec(q)'
    <3>1. op'[q] = op[q]
      BY <1>2
    <3> QED  BY ZenonT(30), <1>3, <1>5, <2>1, <3>1 DEF PutRec, GetRec, Late
  <2> QED  BY <2>2, <2>14, <2>15
<1> QED  BY <1>6, <1>7 DEF RecentInv

\* Whose segments they are that are laid out, removed or left behind.
LEMMA RecentSeg ==
  ASSUME Serial, SerialInv, SerialInv', RecentInv, SegStep
  PROVE  RecentInv'
<1>1. PICK p \in Procs : Acts(p)
  BY OneActs
<1>2. /\ Shape /\ Typed /\ OneBusy /\ ConfInv /\ RtInv /\ HdrInv /\ HdrInv' /\ Calm(p)
      /\ pc \in [Procs -> States] /\ DOMAIN hdr = SegKeys /\ MemInv
  BY <1>1, ActsInCalm DEF SerialInv, Shape, RtInv, HdrInv, Typed
<1>3. /\ Conf' = Conf /\ Areas' = Areas /\ \A k : RecsAt(k)' = RecsAt(k)
  <2>1. [RtNext]_vars
    BY DEF RtNext
  <2> QED  BY <2>1, ConfStays, RecsStay
<1>4. /\ mem' = [k \in SegKeys |-> IF seg'[k].size = 0 THEN <<>> ELSE mem[k]]
      /\ op' = [q \in Procs |-> IF pc'[q] = "ready" THEN op[q] ELSE Idle]
      /\ begun' = [k \in SegKeys |-> IF seg'[k].size = 0 THEN Nothing ELSE begun[k]]
      /\ newest' = [k \in SegKeys |-> IF seg'[k].size = 0 THEN Nothing ELSE newest[k]]
  BY DEF SegStep
<1>5. ASSUME NEW k \in SegKeys
      PROVE  \/ hdr'[k] = <<>> /\ seg[k].att \subseteq {p} /\ seg'[k] = NoSegment
             \/ hdr'[k] = hdr[k] /\ (seg[k].size # 0 => seg'[k].size # 0)
             \/ /\ Check(p) /\ IsFirst(LocalKey) /\ seg' = seg
                /\ hdr'[k] = LaidOut(conf[p])[k]
  BY <1>1, <1>2, HdrGoes
<1>6. ASSUME NEW k \in SegKeys, DOMAIN hdr[k] = {}
      PROVE  mem'[k] = <<>> /\ begun'[k] = Nothing /\ newest'[k] = Nothing
  BY <1>4, <1>6 DEF RecentInv, BlankInv
<1>7. BlankInv'
  <2> SUFFICES ASSUME NEW k \in SegKeys, DOMAIN hdr'[k] = {}
               PROVE  mem'[k] = <<>> /\ begun'[k] = Nothing /\ newest'[k] = Nothing
    BY DEF BlankInv
  <2>1. CASE seg'[k] = NoSegment
    <3>1. seg'[k].size = 0
      BY <2>1 DEF NoSegment
    <3> QED  BY <1>4, <3>1
  <2>2. CASE hdr'[k] = hdr[k]
    BY <1>6, <2>2
  <2>3. CASE Check(p) /\ hdr'[k] = LaidOut(conf[p])[k]
    <3>1. Configured
      BY <1>2, <2>3 DEF Check, ConfInv, Up
    <3>2. conf[p] = Conf \/ conf[p] = Uninitialised
      BY <1>2 DEF Typed, Conf
    <3>3. hdr'[k] = hdr[k] \/ (k \in Areas /\ IsLayout(hdr'[k], RecsAt(k)))
      BY <1>2, <2>3, <3>1, <3>2, LaidOutAre
    <3>4. ASSUME k \in Areas, IsLayout(hdr'[k], RecsAt(k)) PROVE DOMAIN hdr[k] = {}
      <4>1. 1 .. Len(RecsAt(k)) = {}
        BY <3>4 DEF IsLayout
      <4>2. hdr[k] = <<>> \/ DOMAIN hdr[k] = {}
        BY <1>2, <4>1 DEF HdrInv, IsLayout
      <4> QED  BY <4>2
    <3> QED  BY <1>6, <3>3, <3>4
  <2> QED  BY <1>5, <2>1, <2>2, <2>3
<1>8. ASSUME ~reused' PROVE RecInv' /\ \A q \in Procs : PutRec(q)' /\ GetRec(q)'
  <2>1. ~reused /\ (Check(p) /\ IsFirst(LocalKey) => \A k \in SegKeys : hdr[k] = <<>>)
    <3>1. CASE Check(p)
      BY <1>8, <3>1 DEF Check
    <3>2. CASE ~Check(p)
      BY <1>1, <1>8, <3>2 DEF Acts, Start, Load, Attach, Leave, Detach, Crash
    <3> QED  BY <3>1, <3>2
  <2>2. RecInv /\ \A q \in Procs : PutRec(q) /\ GetRec(q)
    BY <2>1 DEF RecentInv
  <2>3. ASSUME NEW k \in SegKeys, NEW j \in DOMAIN hdr[k], hdr'[k] = hdr[k], seg'[k].size # 0
        PROVE  /\ begun'[k] = begun[k] /\ newest'[k] = newest[k]
               /\ \A b, w : Has(k, j, b, w)' = Has(k, j, b, w)
               /\ CellsOf(k, j)' = CellsOf(k, j)
    <3>1. mem'[k] = mem[k] /\ begun'[k] = begun[k] /\ newest'[k] = newest[k]
      BY <1>4, <2>3
    <3> QED  BY <2>3, <3>1, HasStays
  <2>4. RecInv'
    <3> SUFFICES ASSUME NEW k \in SegKeys, NEW j \in DOMAIN hdr'[k], NEW w \in CellsOf(k, j)'
                 PROVE  Has(k, j, hdr[k][j].rb, w)' = newest'[k][j]
      BY DEF RecInv
    <3>1. hdr'[k] # <<>>
      OBVIOUS
    <3>2. k \in Areas /\ seg'[k].size # 0 /\ IsLayout(hdr'[k], RecsAt(k))
      BY <1>2, <1>3, <3>1 DEF HdrInv
    <3>3. CASE hdr'[k] = hdr[k]
      <4>1. j \in DOMAIN hdr[k]
        BY <3>3
      <4>2. /\ newest'[k] = newest[k] /\ \A b, v : Has(k, j, b, v)' = Has(k, j, b, v)
            /\ CellsOf(k, j)' = CellsOf(k, j)
        BY <2>3, <3>2, <3>3, <4>1
      <4>3. PICK b : b = hdr[k][j].rb /\ b = hdr'[k][j].rb
        BY <3>3
      <4>4. Has(k, j, b, w) = newest[k][j]
        BY <2>2, <4>1, <4>2, <4>3 DEF RecInv
      <4>5. Has(k, j, b, w)' = newest'[k][j]
        BY <4>2, <4>4
      <4> QED  BY <4>3, <4>5
    <3>4. CASE Check(p) /\ IsFirst(LocalKey)
      <4>1. hdr[k] = <<>> /\ DOMAIN <<>> = {}
        BY <2>1, <3>4
      <4>2. mem'[k] = <<>> /\ newest'[k] = Nothing
        BY <1>6, <4>1
      <4>3. \A b, v : Has(k, j, b, v)' = 0
        BY <4>1, <4>2 DEF Has, At
      <4>4. newest'[k][j] = 0
        <5>1. j \in 1 .. Len(RecsAt(k)) /\ Len(RecsAt(k)) \in 0 .. MaxRecs /\ MaxRecs \in Nat
          BY <3>2, ConfFacts, <1>2, SegmentsConstants DEF IsLayout
        <5>2. j \in Places
          BY <5>1 DEF Places
        <5> QED  BY <4>2, <5>2 DEF Nothing
      <4>5. PICK b : b = hdr'[k][j].rb
        OBVIOUS
      <4>6. Has(k, j, b, w)' = newest'[k][j]
        BY <4>3, <4>4
      <4> QED  BY <4>5, <4>6
    <3> QED  BY <1>5, <3>1, <3>3, <3>4
  <2>5. ASSUME NEW q \in Procs PROVE PutRec(q)' /\ GetRec(q)'
    <3>1. CASE op'[q] = Idle
      BY <3>1 DEF PutRec, GetRec, Idle
    <3>2. CASE op'[q] # Idle /\ op[q].kind \notin {"put", "get"}
      BY <1>4, <3>2 DEF PutRec, GetRec
    <3>3. CASE op'[q] # Idle /\ op[q].kind \in {"put", "get"}
      <4>1. op'[q] = op[q] /\ pc'[q] = "ready"
        BY <1>4, <3>3
      <4>2. PICK k, j : k = op[q].k /\ j = op[q].j
        OBVIOUS
      <4>3. /\ pc[q] = "ready" /\ k \in SegKeys /\ k \in Areas /\ j \in DOMAIN hdr[k]
            /\ op[q].kind = "get" => op[q] \in GetOps
            /\ hdr[k][j].size \in Nat /\ newest[k][j] \in Nat /\ begun[k][j] \in Nat
        BY <1>2, <3>3, <4>2, OpFacts DEF OpsAt
      <4>4. q # p
        <5>1. pc[p] = "ready" => pc'[p] # "ready"
          BY <1>1, <1>2 DEF Acts, Start, Load, Attach, Check, Leave, Detach, Crash
        <5> QED  BY <4>1, <4>3, <5>1
      <4>5. k \in 0 .. LocalKey /\ LocalKey \in 0 .. LocalKey /\ LocalKey \in SegKeys
        <5>1. Configured
          BY <1>2, <4>3 DEF ConfInv, Up
        <5> QED  BY <1>2, <4>3, <5>1, LocalKeyFacts, ConfFacts DEF Areas, Configured
      <4>6. q \in seg[k].att /\ q \in seg[LocalKey].att
        BY <1>2, <4>3, <4>5, ReadyHolds
      <4>7. ~(Check(p) /\ IsFirst(LocalKey))
        <5> SUFFICES ASSUME Check(p), IsFirst(LocalKey) PROVE FALSE
          OBVIOUS
        <5>1. p \in seg[LocalKey].att
          BY <1>2, <4>5, ReadyHolds DEF Check
        <5> QED  BY <1>2, <4>4, <4>5, <4>6, <5>1, FirstIsAlone
      <4>8. hdr'[k] = hdr[k] /\ seg'[k].size # 0
        <5>1. hdr'[k] = hdr[k] /\ (seg[k].size # 0 => seg'[k].size # 0)
          BY <1>5, <4>3, <4>4, <4>6, <4>7
        <5>2. hdr[k] # <<>>
          BY <4>3
        <5> QED  BY <1>2, <4>3, <5>1, <5>2 DEF HdrInv
      <4>9. /\ begun'[k] = begun[k] /\ newest'[k] = newest[k]
            /\ \A b, w : Has(k, j, b, w)' = Has(k, j, b, w)
        BY <2>3, <4>3, <4>8
      <4>10. PutRec(q)'
        <5>1. q \in Procs /\ PutRec(q) /\ op'[q] = op[q] /\ k = op[q].k /\ j = op[q].j
          BY <2>2, <4>1, <4>2
        <5>2. PICK b, m : b = op[q].bank /\ m = op[q].at
          OBVIOUS
        <5>3. KnownCellsStay(k, j, b, m)
          BY <4>8, <4>9 DEF KnownCellsStay
        <5> QED  BY ONLY <5>1, <5>2, <5>3, PutKept
      <4>11. CASE op[q].kind = "get"
        <5>1. /\ q \in Procs /\ GetRec(q) /\ op'[q] = op[q] /\ op[q] \in GetOps
              /\ k = op[q].k /\ j = op[q].j
          BY <2>2, <4>1, <4>2, <4>3, <4>11
        <5>2. \A b, w : Has(k, j, b, w) \in Nat
          BY <1>2, <4>3, HasTyped
        <5>3. newest[k][j] <= newest'[k][j] /\ begun[k][j] <= begun'[k][j]
          BY <4>3, <4>9
        <5>4. Grows(k, j)
          BY <4>3, <4>8, <4>9, <5>2, <5>3 DEF Grows
        <5>5. GetRec(q)'
          BY ONLY <5>1, <5>4, GetKept
        <5> QED  BY <4>10, <5>5
      <4>12. CASE op[q].kind # "get"
        BY <4>1, <4>10, <4>12 DEF GetRec
      <4> QED  BY <4>11, <4>12
    <3> QED  BY <3>1, <3>2, <3>3
  <2> QED  BY <2>4, <2>5
<1> QED  BY <1>7, <1>8 DEF RecentInv

LEMMA RecentHolds ==
  ASSUME Serial
  PROVE  Spec => [](SerialInv /\ RecentInv)
<1>1. RtInit => RecentInv
  <2> SUFFICES ASSUME RtInit PROVE RecentInv
    OBVIOUS
  <2>1. /\ hdr = [k \in SegKeys |-> <<>>] /\ mem = [k \in SegKeys |-> <<>>]
        /\ op = [p \in Procs |-> Idle]
        /\ begun = [k \in SegKeys |-> Nothing] /\ newest = [k \in SegKeys |-> Nothing]
    BY RtInitIs
  <2>2. BlankInv
    BY <2>1 DEF BlankInv
  <2>3. RecInv
    <3>1. DOMAIN <<>> = {}
      OBVIOUS
    <3> QED  BY <2>1, <3>1 DEF RecInv
  <2>4. \A p \in Procs : PutRec(p) /\ GetRec(p)
    BY <2>1 DEF PutRec, GetRec, Idle
  <2> QED  BY <2>2, <2>3, <2>4 DEF RecentInv
<1>2. SerialInv /\ SerialInv' /\ RecentInv /\ [RtNext]_vars => RecentInv'
  <2> SUFFICES ASSUME SerialInv, SerialInv', RecentInv, [RtNext]_vars PROVE RecentInv'
    OBVIOUS
  <2>1. Typed /\ ConfInv /\ RtInv /\ RtInv'
    BY DEF SerialInv, Shape
  <2>2. CASE SegStep
    BY <2>2, RecentSeg
  <2>3. CASE UNCHANGED vars
    <3>1. UNCHANGED <<hdr, reused, mem, op, begun, newest>>
      BY <2>3 DEF vars, segVars
    <3>2. /\ \A k, j, b, w : Has(k, j, b, w)' = Has(k, j, b, w)
          /\ \A k, j : CellsOf(k, j)' = CellsOf(k, j)
      BY <3>1 DEF Has, At, CellsOf
    <3>3. BlankInv'
      BY <3>1 DEF RecentInv, BlankInv
    <3>4. RecInv => RecInv'
      BY <3>1, <3>2 DEF RecInv
    <3>5. ASSUME NEW p \in Procs, PutRec(p), GetRec(p) PROVE PutRec(p)' /\ GetRec(p)'
      BY <3>1, <3>2, <3>5 DEF PutRec, GetRec, Late
    <3> QED  BY <3>1, <3>3, <3>4, <3>5 DEF RecentInv
  <2>4. CASE \E p \in Procs, a \in Agents, i \in Ids : <<p, a, i>> \in Puts /\ PutIn(p, a, i)
    BY <2>1, <2>4, RecentPutIn
  <2>5. CASE \E p \in Procs, a \in Agents, i \in Ids : DBGet(p, a, i)
    BY <2>1, <2>5, RecentDBGet
  <2>6. CASE \E p \in Procs : PutCell(p) \/ PutEnd(p) \/ GetCell(p)
    BY <2>1, <2>6, RecentPutCell, RecentPutEnd, RecentGetCell
  <2> QED  BY <2>2, <2>3, <2>4, <2>5, <2>6, CasesAre
<1> QED  BY <1>1, <1>2, SerialHolds, PTL DEF Spec

\* The sequence a get that is done has seen.
LEMMA SeenAll ==
  ASSUME Typed, ConfInv, RtInv, NEW p \in DoneGets
  PROVE  LET o == op[p]
             n == hdr[o.k][o.j].size
         IN  /\ p \in Procs /\ o.kind = "get" /\ o.first \in Nat /\ n \in Nat /\ Len(o.seen) = n + 2
             /\ \A w \in 1 .. Len(o.seen) : o.seen[w] \in Nat
             /\ \A w \in 1 .. Len(o.seen) - 2 : w \in 1 .. Len(o.seen) /\ w <= n
             /\ \A w \in Len(o.seen) - 1 .. Len(o.seen) : w \in 1 .. Len(o.seen)
             /\ newest[o.k][o.j] \in Nat /\ begun[o.k][o.j] \in Nat
<1> DEFINE n == hdr[op[p].k][op[p].j].size
           s == op[p].seen
<1>1. /\ p \in Procs /\ op[p].kind = "get" /\ Len(s) = n + 2
  BY DEF DoneGets
<1>2. /\ op[p] \in GetOps /\ n \in Nat /\ newest[op[p].k][op[p].j] \in Nat
      /\ begun[op[p].k][op[p].j] \in Nat
  BY <1>1, OpFacts
<1>3. op[p].first \in Nat /\ s \in Seq(Nat)
  BY <1>2 DEF GetOps
<1> HIDE DEF n, s
<1>4. \A w \in 1 .. Len(s) : s[w] \in Nat
  BY <1>3
<1>5. /\ \A w \in 1 .. Len(s) - 2 : w \in 1 .. Len(s) /\ w <= n
      /\ \A w \in Len(s) - 1 .. Len(s) : w \in 1 .. Len(s)
  BY <1>1, <1>2
<1> QED  BY <1>1, <1>2, <1>3, <1>4, <1>5 DEF n, s

\* A get returns nothing older than what was there when it began, and a mixture
\* only if a put was completed and another one begun meanwhile
\* (rtdb_api.c:488-500, 591).
THEOREM ValueRecent ==
  ASSUME Serial
  PROVE  Spec => []ReadIsRecent
<1>1. SerialInv /\ RecentInv => ReadIsRecent
  <2> SUFFICES ASSUME SerialInv, RecentInv, ~reused, NEW p \in DoneGets
               PROVE  /\ \A v \in ValueOf(op[p]) : op[p].first <= v
                      /\ \A v, u \in ValueOf(op[p]) : v < u =>
                           /\ op[p].first < newest[op[p].k][op[p].j]
                           /\ op[p].first + 2 <= begun[op[p].k][op[p].j]
    BY DEF ReadIsRecent
  <2>1. Typed /\ ConfInv /\ RtInv
    BY DEF SerialInv, Shape
  <2>2. PICK f, s, n : f = op[p].first /\ s = op[p].seen /\ n = hdr[op[p].k][op[p].j].size
    OBVIOUS
  <2>3. /\ p \in Procs /\ op[p].kind = "get" /\ f \in Nat
        /\ \A w \in 1 .. Len(s) : s[w] \in Nat
        /\ \A w \in 1 .. Len(s) - 2 : w \in 1 .. Len(s) /\ w <= n
    BY <2>1, <2>2, SeenAll
  <2>4. /\ \A w \in 1 .. Len(s) : f <= s[w]
        /\ \A w \in 1 .. Len(s) : w <= n /\ s[w] > f =>
             /\ f < newest[op[p].k][op[p].j] /\ f + 2 <= begun[op[p].k][op[p].j]
    BY <2>2, <2>3 DEF RecentInv, GetRec, Late
  <2>5. ValueOf(op[p]) = {s[w] : w \in 1 .. Len(s) - 2}
    BY <2>2 DEF ValueOf
  <2>6. \A v \in ValueOf(op[p]) : v \in Nat /\ f <= v
    BY <2>3, <2>4, <2>5
  <2>7. ASSUME NEW v \in ValueOf(op[p]), NEW u \in ValueOf(op[p]), v < u
        PROVE  /\ f < newest[op[p].k][op[p].j] /\ f + 2 <= begun[op[p].k][op[p].j]
    <3>1. PICK w \in 1 .. Len(s) - 2 : u = s[w]
      BY <2>5
    <3>2. s[w] > f
      <4>1. u \in Nat /\ v \in Nat /\ f <= v
        BY <2>6
      <4> QED  BY <2>3, <2>7, <3>1, <4>1
    <3> QED  BY <2>3, <2>4, <3>2
  <2> QED  BY <2>2, <2>6, <2>7
<1> QED  BY <1>1, RecentHolds, PTL

\* The age a get reports is not that of a value older than the one that was there
\* when the get began (rtdb_api.c:494-498, 593-595).
THEOREM AgeRecent ==
  ASSUME Serial
  PROVE  Spec => []LifeIsRecent
<1>1. SerialInv /\ RecentInv => LifeIsRecent
  <2> SUFFICES ASSUME SerialInv, RecentInv, ~reused, NEW p \in DoneGets, NEW x \in StampOf(op[p])
               PROVE  op[p].first <= x
    BY DEF LifeIsRecent
  <2>1. Typed /\ ConfInv /\ RtInv
    BY DEF SerialInv, Shape
  <2>2. PICK w \in Len(op[p].seen) - 1 .. Len(op[p].seen) : x = op[p].seen[w]
    BY DEF StampOf
  <2>3. p \in Procs /\ op[p].kind = "get" /\ w \in 1 .. Len(op[p].seen)
    BY <2>1, <2>2, SeenAll
  <2> QED  BY <2>2, <2>3 DEF RecentInv, GetRec
<1> QED  BY <1>1, RecentHolds, PTL
=============================================================================
